---- MODULE Spec2Model ----
(***************************************************************************)
(* xstate-ts-to-mermaid: the converter from a directed graph of state      *)
(* nodes (as built by @xstate/graph's toDirectedGraph) to Mermaid          *)
(* stateDiagram-v2 text, in its flat (toMermaid) and nested                *)
(* (toMermaidNested) presentation.                                         *)
(*                                                                         *)
(* Text is modelled as a sequence of tokens.  A token is an indivisible    *)
(* run of characters: "." and ":" are tokens of their own, so splitting    *)
(* on ".", prefix tests and the colon substitution are real operations on  *)
(* the sequence.  Template literals become concatenations of their fixed   *)
(* pieces and the interpolated texts.  Characters outside ASCII are        *)
(* written by name: "{ratio}" is U+2236, "{koppa}" is U+03DF, "{fisheye}"  *)
(* is U+25C9, "{corner}" is U+221F, "{hbar}" and "{rule}" are the two      *)
(* separator rules.                                                        *)
(***************************************************************************)
EXTENDS Integers, Sequences, FiniteSets, TLC

VARIABLES
    digraph,        \* toDirectedGraph(machine): the node tree with edge lists
    options,        \* the MermaidOptions value of the calls
    event,          \* the argument of the exported helper formatEventName
    lines,          \* the lines array of the last converter call
    seenEdges,      \* toMermaid: Set of edge keys of the last call
    seenStates,     \* toMermaid: Set of short names of the last call
    processedEdges, \* toMermaidNested: Set of edge keys of the last call
    flatOut,        \* results returned by toMermaid, oldest first
    nestedOut,      \* results returned by toMermaidNested, oldest first
    helperOut,      \* results returned by formatEventName, oldest first
    labelOut,       \* the call of formatTransitionLabel: its arguments, its result
    walk            \* the last converter call: its machine, the nodes it was
                    \* called on and the edge-list entries its loops read

vars == <<digraph, options, event, lines, seenEdges, seenStates,
          processedEdges, flatOut, nestedOut, helperOut, labelOut, walk>>

----------------------------------------------------------------------------
(* Bounds of the model *)

\* Largest number of transition edges in one graph.
MaxEdges == 2

\* Largest number of calls of each converter in one behaviour.
MaxCalls == 2

\* Largest number of transitions with guards and actions in one graph.
MaxRichEdges == 2

\* Largest value of options.maxDescriptionLength.
MaxLenOption == 55

----------------------------------------------------------------------------
(* Text *)

Dot == "."
Colon == ":"
Br == "<br/>"

\* An optional value: <<>> is undefined, <<v>> is the value v.
None == <<>>
Some(v) == <<v>>
IsSome(o) == Len(o) > 0
Val(o) == o[1]

\* A value that is undefined, a string, or an object with a target.
Undefined == [type |-> "undefined"]
StringValue(text) == [type |-> "string", value |-> text]
ObjectValue(target) == [type |-> "object", target |-> target]

Max(S) == CHOOSE m \in S : \A n \in S : n <= m
Min(S) == CHOOSE m \in S : \A n \in S : m <= n

\* Array.prototype.join: the texts of list with sep between them.
RECURSIVE Join(_, _)
Join(list, sep) ==
    IF Len(list) = 0 THEN <<>>
    ELSE IF Len(list) = 1 THEN list[1]
    ELSE list[1] \o sep \o Join(Tail(list), sep)

\* Concatenation of a list of lists.
RECURSIVE Flatten(_)
Flatten(list) ==
    IF Len(list) = 0 THEN <<>> ELSE list[1] \o Flatten(Tail(list))

\* Does text contain piece as a contiguous run of tokens?
Contains(text, piece) ==
    \E i \in 0..(Len(text) - Len(piece)) :
        SubSeq(text, i + 1, i + Len(piece)) = piece

\* The decimal digit strings of the model, with their values.
DigitValue ==
    ("0" :> 0) @@ ("500" :> 500) @@ ("5000" :> 5000) @@ ("60000" :> 60000)

IsDigits(tok) == tok \in DOMAIN DigitValue

\* Tokens whose last six characters are "xstate".
EndsWithXstate(tok) == tok \in {"xstate", "myxstate"}

----------------------------------------------------------------------------
(* Exported helpers *)

\* id.split("."), last part
getStateName(id) ==
    LET dots == {i \in 1..Len(id) : id[i] = Dot}
    IN  IF dots = {} THEN id ELSE SubSeq(id, Max(dots) + 1, Len(id))

\* event.startsWith("xstate.after.")
StartsWithAfterPrefix(ev) ==
    /\ Len(ev) >= 4
    /\ ev[1] = "xstate" /\ ev[2] = Dot /\ ev[3] = "after" /\ ev[4] = Dot

\* The positions where /xstate\.after\.(\d+)\./ matches in ev; the regular
\* expression is not anchored, so a match may start at any "xstate".
DelayMatches(ev) ==
    {i \in 1..(Len(ev) - 5) :
        /\ EndsWithXstate(ev[i]) /\ ev[i + 1] = Dot
        /\ ev[i + 2] = "after" /\ ev[i + 3] = Dot
        /\ IsDigits(ev[i + 4]) /\ ev[i + 5] = Dot}

\* The variant of older snapshots, which converts the unit: minutes from
\* 60000 ms on, seconds below.
formatEventNameUnits(ev) ==
    IF StartsWithAfterPrefix(ev) /\ DelayMatches(ev) # {}
    THEN LET ms == DigitValue[ev[Min(DelayMatches(ev)) + 4]]
         IN  IF ms >= 60000 THEN <<"after ", ToString(ms \div 60000), "m">>
             ELSE <<"after ", ToString(ms \div 1000), Dot, ToString(ms % 1000), "s">>
    ELSE ev

formatEventName(ev) ==
    IF StartsWithAfterPrefix(ev) /\ DelayMatches(ev) # {}
    THEN <<"after ", ev[Min(DelayMatches(ev)) + 4], "ms">>
    ELSE ev

\* /^INV:/i : the text starts with the word INV, in any case, and a colon
StartsWithInv(text) ==
    /\ Len(text) >= 2
    /\ text[1] \in {"INV", "INv", "InV", "Inv", "iNV", "iNv", "inV", "inv"}
    /\ text[2] = Colon

\* A variant that expands the abbreviation and leaves the other colons.
escapeMermaidTextPrefixOnly(text) ==
    IF StartsWithInv(text)
    THEN <<"Invariant{ratio}">> \o SubSeq(text, 3, Len(text))
    ELSE text

\* text.replace(/^INV:/i, 'Invariant{ratio}').replace(/:/g, '{ratio}')
escapeMermaidText(text) ==
    LET result == IF StartsWithInv(text)
                  THEN <<"Invariant{ratio}">> \o SubSeq(text, 3, Len(text))
                  ELSE text
    IN  [i \in 1..Len(result) |->
            IF result[i] = Colon THEN "{ratio}" ELSE result[i]]

\* A variant that keeps every non-empty identifier.
KeepAnyAction(t) == Len(t) > 0

\* t && !t.startsWith('xstate.')
IsUserAction(t) ==
    /\ Len(t) > 0
    /\ ~(Len(t) >= 2 /\ t[1] = "xstate" /\ t[2] = Dot)

\* list.map(a => a.type).filter(t => t && !t.startsWith('xstate.'))
RECURSIVE ActionTypes(_)
ActionTypes(list) ==
    IF Len(list) = 0 THEN <<>>
    ELSE IF IsUserAction(list[1])
         THEN <<list[1]>> \o ActionTypes(Tail(list))
         ELSE ActionTypes(Tail(list))

\* A variant that escapes the empty text when no description is declared.
getDescriptionOrEmpty(node) ==
    LET desc == node.stateNode.description
    IN  Some(escapeMermaidText(IF IsSome(desc) THEN Val(desc) ELSE <<>>))

getDescription(node) ==
    LET desc == node.stateNode.description
    IN  IF IsSome(desc) /\ Len(Val(desc)) > 0
        THEN Some(escapeMermaidText(Val(desc))) ELSE None

getEntryActions(node) ==
    IF IsSome(node.stateNode.entry)
    THEN ActionTypes(Val(node.stateNode.entry)) ELSE <<>>

getExitActions(node) ==
    IF IsSome(node.stateNode.exit)
    THEN ActionTypes(Val(node.stateNode.exit)) ELSE <<>>

getInvokes(node) ==
    IF IsSome(node.stateNode.invoke) THEN Val(node.stateNode.invoke) ELSE <<>>

getTags(node) ==
    IF IsSome(node.stateNode.tags) THEN Val(node.stateNode.tags) ELSE <<>>

getMeta(node) == node.stateNode.meta

\* options.flag ?? dflt, and the default of a destructured parameter
Default(o, dflt) == IF IsSome(o) THEN Val(o) ELSE dflt

\* formattedEvent.startsWith('after ')
StartsWithAfterWord(text) == Len(text) > 0 /\ text[1] = "after "

\* A variant that appends the action line also when no name is left.
ActionLineAlways(actionNames) ==
    <<Br>> \o Join([i \in 1..Len(actionNames) |->
                      <<"[{koppa} ">> \o actionNames[i] \o <<"]">>], <<" ">>)

\* actionNames.length > 0 ? `<br/>${actionNames.map(a => `[{koppa} ${a}]`).join(' ')}`
ActionLine(actionNames) ==
    IF Len(actionNames) > 0
    THEN <<Br>> \o Join([i \in 1..Len(actionNames) |->
                           <<"[{koppa} ">> \o actionNames[i] \o <<"]">>], <<" ">>)
    ELSE <<>>

\* A variant that leaves the guard out.
GuardPartNone(t, includeGuards) == <<>>

\* includeGuards && transition.guard?.type ? ` IF ${transition.guard.type}`
GuardPart(t, includeGuards) ==
    IF includeGuards /\ IsSome(t.guard) /\ Len(Val(t.guard)) > 0
    THEN <<" IF ">> \o Val(t.guard) ELSE <<>>

\* A variant that lists the actions without the filter.
TransitionActionNamesAll(t) == t.actions

\* transition.actions.map(a => a.type).filter(...)
TransitionActionNames(t) == ActionTypes(t.actions)

formatTransitionLabel(t, labelOptions) ==
    LET includeGuards == Default(labelOptions.includeGuards, TRUE)
        includeActions == Default(labelOptions.includeActions, TRUE)
        formattedEvent == formatEventName(t.eventType)
        label == IF StartsWithAfterWord(formattedEvent)
                 THEN <<"<i>after</i> ">> \o Tail(formattedEvent)
                 ELSE <<"<b>">> \o formattedEvent \o <<"</b>">>
    IN  label
        \o GuardPart(t, includeGuards)
        \o (IF includeActions /\ Len(t.actions) > 0
            THEN ActionLine(TransitionActionNames(t)) ELSE <<>>)

\* One meta value as text: value.join(', '), JSON.stringify(value) or
\* String(value).
MetaValueText(value) ==
    CASE value.kind = "array"  -> Join(value.items, <<", ">>)
      [] value.kind = "object" ->
            <<"{">> \o Join([i \in 1..Len(value.items) |->
                               <<"\"">> \o value.items[i].key \o <<"\"", Colon>>
                               \o <<"\"">> \o value.items[i].text \o <<"\"">>],
                            <<",">>) \o <<"}">>
      [] OTHER -> value.text

\* for (const [key, value] of Object.entries(meta))
formatMeta(meta) ==
    [i \in 1..Len(meta) |->
        <<"<i>">> \o meta[i].key \o <<"</i> - ">> \o MetaValueText(meta[i].value)]

\* String.prototype.toLowerCase, token by token
LowerCase(text) ==
    [i \in 1..Len(text) |->
        CASE text[i] = "B" -> "b" [] text[i] = "X" -> "x" [] OTHER -> text[i]]

\* The characters of a token, one piece per character.  A name in braces
\* stands for one character; "{hbar}" is a rule of 14 characters "{h}" and
\* "{rule}" a rule of 8 characters "{r}".
RECURSIVE CharPieces(_)
CharPieces(tok) ==
    IF Len(tok) = 0 THEN <<>>
    ELSE IF tok = "{hbar}" THEN [i \in 1..14 |-> "{h}"]
    ELSE IF tok = "{rule}" THEN [i \in 1..8 |-> "{r}"]
    ELSE LET closes == {j \in 2..Len(tok) : SubSeq(tok, j, j) = "}"}
             n == IF SubSeq(tok, 1, 1) = "{" /\ closes # {} THEN Min(closes) ELSE 1
         IN  <<SubSeq(tok, 1, n)>> \o CharPieces(SubSeq(tok, n + 1, Len(tok)))

\* text.length
RECURSIVE TextLength(_)
TextLength(text) ==
    IF Len(text) = 0 THEN 0
    ELSE Len(CharPieces(text[1])) + TextLength(Tail(text))

\* The pieces of a list as one token.
RECURSIVE Glue(_)
Glue(pieces) == IF Len(pieces) = 0 THEN "" ELSE pieces[1] \o Glue(Tail(pieces))

\* text.substring(0, k): the tokens that fit whole, then the part of the
\* next token that fits.
RECURSIVE Substring0(_, _)
Substring0(text, k) ==
    IF k <= 0 \/ Len(text) = 0 THEN <<>>
    ELSE LET pieces == CharPieces(text[1])
         IN  IF Len(pieces) <= k
             THEN <<text[1]>> \o Substring0(Tail(text), k - Len(pieces))
             ELSE <<Glue(SubSeq(pieces, 1, k))>>

\* A variant that cuts a text of exactly maxLen characters too.
TruncateFrom(text, maxLen) ==
    IF maxLen > 0 /\ TextLength(text) >= maxLen
    THEN Substring0(text, maxLen) \o <<"...">> ELSE text

\* maxLen > 0 && text.length > maxLen ? text.substring(0, maxLen) + "..." : text
Truncate(text, maxLen) ==
    IF maxLen > 0 /\ TextLength(text) > maxLen
    THEN Substring0(text, maxLen) \o <<"...">> ELSE text

ActionSection(title, actions) ==
    IF Len(actions) > 0
    THEN <<<<"{rule}">>, <<"<i>", title, "</i>">>>>
         \o [i \in 1..Len(actions) |-> <<"[{koppa} ">> \o actions[i] \o <<"]">>]
    ELSE <<>>

InvokeSection(invokes) ==
    IF Len(invokes) > 0
    THEN <<<<"{rule}">>, <<"<i>", "Invoke", "</i>">>>>
         \o Flatten([i \in 1..Len(invokes) |->
              << <<"[{fisheye} ">> \o escapeMermaidText(invokes[i].src) \o <<"]">>,
                 <<"<sub>{corner} ID{ratio} ">>
                    \o escapeMermaidText(invokes[i].id) \o <<"</sub>">> >>])
    ELSE <<>>

\* A variant that renders the tags last to first.
TagLinesReversed(tags) ==
    [i \in 1..Len(tags) |->
        <<"(">> \o escapeMermaidText(tags[Len(tags) + 1 - i]) \o <<")">>]

\* A variant that leaves the tags out of the label.
TagLinesNone(tags) == <<>>

TagLines(tags) ==
    [i \in 1..Len(tags) |-> <<"(">> \o escapeMermaidText(tags[i]) \o <<")">>]

buildStateLabel(name, desc, tags, meta, entry, exit, invokes, maxLen) ==
    LET parts ==
            << <<"<b>">> \o LowerCase(name) \o <<"</b>">>, <<"{hbar}">> >>
            \o (IF IsSome(desc) THEN << <<"<sup>">> \o Val(desc) \o <<"</sup>">> >>
                ELSE <<>>)
            \o TagLines(tags)
            \o (IF IsSome(meta) /\ Len(Val(meta)) > 0
                THEN formatMeta(Val(meta)) ELSE <<>>)
            \o ActionSection("Entry actions", entry)
            \o ActionSection("Exit actions", exit)
            \o InvokeSection(invokes)
    IN  Truncate(Join(parts, <<Br>>), maxLen)

----------------------------------------------------------------------------
(* Option resolution, shared by toMermaid and toMermaidNested *)

maxLen == Default(options.maxDescriptionLength, 0)
labelOptions ==
    [includeGuards |-> Some(Default(options.includeGuards, TRUE)),
     includeActions |-> Some(Default(options.includeActions, TRUE))]
\* A variant that shows the entry actions whatever the option says.
includeEntryAlways == TRUE

includeEntry == Default(options.includeEntryActions, TRUE)
includeExit == Default(options.includeExitActions, TRUE)
includeInvoke == Default(options.includeInvokes, TRUE)
includeTagsOpt == Default(options.includeTags, TRUE)
includeMetaOpt == Default(options.includeMeta, TRUE)

\* A variant that indents every line by one unit.
PadOnce(indent) == <<"    ">>

\* "    ".repeat(indent)
Pad(indent) == [i \in 1..indent |-> "    "]

\* A set that outlives the call: what the last calls left behind.
StaleSet == seenEdges \cup seenStates \cup processedEdges

\* new Set<string>()
NewSet == {}

\* A variant that builds the label also of a node without content.
StateLineAlwaysLabel(pad, node) ==
    LET name == getStateName(node.id)
        desc == getDescription(node)
        entry == IF includeEntry THEN getEntryActions(node) ELSE <<>>
        exit == IF includeExit THEN getExitActions(node) ELSE <<>>
        invokes == IF includeInvoke THEN getInvokes(node) ELSE <<>>
        tags == IF includeTagsOpt THEN getTags(node) ELSE <<>>
        meta == IF includeMetaOpt THEN getMeta(node) ELSE None
    IN  pad \o name \o <<": ">>
        \o buildStateLabel(name, desc, tags, meta, entry, exit, invokes, maxLen)

\* The state line of a node: `${pad}${name}: ${label}` when the node has
\* content, `${pad}${name}: ${name}` when it has none.
StateLine(pad, node) ==
    LET name == getStateName(node.id)
        desc == getDescription(node)
        entry == IF includeEntry THEN getEntryActions(node) ELSE <<>>
        exit == IF includeExit THEN getExitActions(node) ELSE <<>>
        invokes == IF includeInvoke THEN getInvokes(node) ELSE <<>>
        tags == IF includeTagsOpt THEN getTags(node) ELSE <<>>
        meta == IF includeMetaOpt THEN getMeta(node) ELSE None
        hasContent ==
            \/ IsSome(desc) \/ Len(tags) > 0
            \/ (IsSome(meta) /\ Len(Val(meta)) > 0)
            \/ Len(entry) > 0 \/ Len(exit) > 0 \/ Len(invokes) > 0
    IN  IF hasContent
        THEN pad \o name \o <<": ">>
             \o buildStateLabel(name, desc, tags, meta, entry, exit, invokes, maxLen)
        ELSE pad \o name \o <<": ">> \o name

\* `${pad}${sourceName} --> ${targetName}: ${formatTransitionLabel(t, labelOptions)}`
EdgeLine(pad, edge) ==
    pad \o getStateName(edge.source) \o <<" --> ">> \o getStateName(edge.target)
    \o <<": ">> \o formatTransitionLabel(edge.transition, labelOptions)

\* initial && typeof initial === "string" ? `${pad}[*] --> ${initial}`
InitialMarker(pad, initial) ==
    IF initial.type = "string" /\ Len(initial.value) > 0
    THEN << pad \o <<"[*] --> ">> \o initial.value >> ELSE <<>>

----------------------------------------------------------------------------
(* toMermaid: the flat walk *)

\* `${sourceName}:${targetName}:${t.eventType}`
FlatKey(edge) ==
    getStateName(edge.source) \o <<Colon>> \o getStateName(edge.target)
    \o <<Colon>> \o edge.transition.eventType

\* The loop over one edge list: an edge whose key was not seen is recorded
\* and emitted.
RECURSIVE FlatEdges(_, _)
FlatEdges(st, edges) ==
    IF Len(edges) = 0 THEN st
    ELSE LET key == FlatKey(edges[1])
             st1 == IF key \notin st.seenEdges
                    THEN [st EXCEPT !.seenEdges = @ \cup {key},
                                    !.lines = Append(@, EdgeLine(Pad(1), edges[1]))]
                    ELSE st
         IN  FlatEdges([st1 EXCEPT !.examined = Append(@, edges[1])], Tail(edges))

\* A variant that takes no state for seen.
SeenNoState(st, name) == FALSE

\* seenStates.has(name)
SeenState(st, name) == name \in st.seenStates

RECURSIVE collectAll(_, _), collectEach(_, _)
\* A variant that walks the children of a node before the node's edges.
collectAllChildrenFirst(st, n) ==
    LET node == digraph.nodes[n]
        name == getStateName(node.id)
        st1 == IF ~SeenState(st, name)
               THEN [st EXCEPT !.seenStates = @ \cup {name},
                               !.lines = Append(@, StateLine(Pad(1), node))]
               ELSE st
    IN  FlatEdges(collectEach(st1, node.children), node.edges)

collectAll(st, n) ==
    LET node == digraph.nodes[n]
        name == getStateName(node.id)
        st1 == IF ~SeenState(st, name)
               THEN [st EXCEPT !.seenStates = @ \cup {name},
                               !.lines = Append(@, StateLine(Pad(1), node))]
               ELSE st
    IN  collectEach(FlatEdges(st1, node.edges), node.children)

\* for (const child of children) collectAll(child)
collectEach(st, children) ==
    IF Len(children) = 0 THEN st
    ELSE collectEach(collectAll([st EXCEPT !.visited = Append(@, children[1])],
                                children[1]),
                     Tail(children))

\* One call of toMermaid: the final lines and sets.
toMermaid ==
    LET st0 == [lines |-> << <<"stateDiagram-v2">> >>
                          \o InitialMarker(Pad(1), digraph.initial),
                seenEdges |-> NewSet, seenStates |-> NewSet,
                visited |-> <<>>, examined |-> <<>>]
    IN  collectEach(FlatEdges(st0, digraph.edges), digraph.children)

----------------------------------------------------------------------------
(* toMermaidNested: the nested walk *)

\* `${edge.source.id}->${edge.target.id}:${t.eventType}`
NestedKey(edge) ==
    edge.source \o <<"->">> \o edge.target \o <<Colon>> \o edge.transition.eventType

RECURSIVE NestedEdges(_, _, _)
NestedEdges(st, edges, pad) ==
    IF Len(edges) = 0 THEN st
    ELSE LET key == NestedKey(edges[1])
             st1 == IF key \notin st.processedEdges
                    THEN [st EXCEPT !.processedEdges = @ \cup {key},
                                    !.lines = Append(@, EdgeLine(pad, edges[1]))]
                    ELSE st
         IN  NestedEdges([st1 EXCEPT !.examined = Append(@, edges[1])], Tail(edges), pad)

\* A variant that writes the note also for a state without description.
NoteLinesAlways(pad, name, desc) ==
    << pad \o <<"note right of ">> \o name \o <<": ">>
       \o (IF IsSome(desc) THEN Truncate(Val(desc), maxLen) ELSE name) >>

\* if (desc) lines.push(`${pad}note right of ${name}: ${text}`)
NoteLines(pad, name, desc) ==
    IF IsSome(desc)
    THEN << pad \o <<"note right of ">> \o name \o <<": ">>
            \o Truncate(Val(desc), maxLen) >>
    ELSE <<>>

RECURSIVE processNode(_, _, _), processEach(_, _, _)
\* A variant that gives every leaf the line `name: name`.
processNodeBareLeaf(st, n, indent) ==
    LET node == digraph.nodes[n]
        pad == Pad(indent)
        name == getStateName(node.id)
        hasChildren == Len(node.children) > 0
        desc == getDescription(node)
    IN  IF hasChildren
        THEN LET st1 == [st EXCEPT !.lines =
                            Append(@, pad \o <<"state ">> \o name \o <<" {">>)
                            \o InitialMarker(pad \o <<"    ">>, node.stateNode.initial)]
                 st2 == processEach(st1, node.children, indent + 1)
                 st3 == NestedEdges(st2, node.edges, pad \o <<"    ">>)
                 st4 == [st3 EXCEPT !.lines = Append(@, pad \o <<"}">>)]
             IN  [st4 EXCEPT !.lines = @ \o NoteLines(pad, name, desc)]
        ELSE [st EXCEPT !.lines = Append(@, pad \o name \o <<": ">> \o name)]

\* A variant that emits the edges of a compound node before its children.
processNodeEdgesFirst(st, n, indent) ==
    LET node == digraph.nodes[n]
        pad == Pad(indent)
        name == getStateName(node.id)
        hasChildren == Len(node.children) > 0
        desc == getDescription(node)
    IN  IF hasChildren
        THEN LET st1 == [st EXCEPT !.lines =
                            Append(@, pad \o <<"state ">> \o name \o <<" {">>)
                            \o InitialMarker(pad \o <<"    ">>, node.stateNode.initial)]
                 st2 == NestedEdges(st1, node.edges, pad \o <<"    ">>)
                 st3 == processEach(st2, node.children, indent + 1)
                 st4 == [st3 EXCEPT !.lines = Append(@, pad \o <<"}">>)]
             IN  [st4 EXCEPT !.lines = @ \o NoteLines(pad, name, desc)]
        ELSE [st EXCEPT !.lines = Append(@, StateLine(pad, node))]

processNode(st, n, indent) ==
    LET node == digraph.nodes[n]
        pad == Pad(indent)
        name == getStateName(node.id)
        hasChildren == Len(node.children) > 0
        desc == getDescription(node)
    IN  IF hasChildren
        THEN LET st1 == [st EXCEPT !.lines =
                            Append(@, pad \o <<"state ">> \o name \o <<" {">>)
                            \o InitialMarker(pad \o <<"    ">>, node.stateNode.initial)]
                 st2 == processEach(st1, node.children, indent + 1)
                 st3 == NestedEdges(st2, node.edges, pad \o <<"    ">>)
                 st4 == [st3 EXCEPT !.lines = Append(@, pad \o <<"}">>)]
             IN  [st4 EXCEPT !.lines = @ \o NoteLines(pad, name, desc)]
        ELSE [st EXCEPT !.lines = Append(@, StateLine(pad, node))]

\* for (const child of children) processNode(child, indent)
processEach(st, children, indent) ==
    IF Len(children) = 0 THEN st
    ELSE processEach(processNode([st EXCEPT !.visited = Append(@, children[1])],
                                 children[1], indent),
                     Tail(children), indent)

\* One call of toMermaidNested: the final lines and set.
toMermaidNested ==
    LET st0 == [lines |-> << <<"stateDiagram-v2">> >>
                          \o InitialMarker(Pad(1), digraph.initial),
                processedEdges |-> NewSet,
                visited |-> <<>>, examined |-> <<>>]
    IN  NestedEdges(processEach(st0, digraph.children, 1), digraph.edges, Pad(1))

\* lines.join("\n")
JoinLines(ls) == Join(ls, <<"\n">>)

----------------------------------------------------------------------------
(* The graphs toDirectedGraph hands to the converters.  A node's edge list  *)
(* holds the transitions that leave that node, the root list those of the   *)
(* machine itself; every edge targets a node of the graph.                  *)

\* The dot-qualified id of a path of state keys: "m.p.x"
Path(segs) == Join([i \in 1..Len(segs) |-> <<segs[i]>>], <<Dot>>)

RootId == <<"m">>

\* Two leaves.
ShapeFlat ==
    [top |-> <<1, 2>>, targets |-> {1, 2},
     nodes |-> << [path |-> <<"m", "a">>, children |-> <<>>],
                  [path |-> <<"m", "B">>, children |-> <<>>] >>]

\* A compound state with a leaf, beside a leaf.
ShapeNested ==
    [top |-> <<1, 3>>, targets |-> {2, 3},
     nodes |-> << [path |-> <<"m", "p">>, children |-> <<2>>],
                  [path |-> <<"m", "p", "x">>, children |-> <<>>],
                  [path |-> <<"m", "B">>, children |-> <<>>] >>]

\* Two compound states whose children share the key x.
ShapeTwins ==
    [top |-> <<1, 3>>, targets |-> {2, 4},
     nodes |-> << [path |-> <<"m", "p">>, children |-> <<2>>],
                  [path |-> <<"m", "p", "x">>, children |-> <<>>],
                  [path |-> <<"m", "q">>, children |-> <<4>>],
                  [path |-> <<"m", "q", "x">>, children |-> <<>>] >>]

\* A compound state inside a compound state.
ShapeDeep ==
    [top |-> <<1>>, targets |-> {1, 3},
     nodes |-> << [path |-> <<"m", "p">>, children |-> <<2>>],
                  [path |-> <<"m", "p", "q">>, children |-> <<3>>],
                  [path |-> <<"m", "p", "q", "x">>, children |-> <<>>] >>]

Shapes == {ShapeFlat, ShapeNested, ShapeTwins, ShapeDeep}

NodeIds(shape) == 1..Len(shape.nodes)

\* The id of the owner of an edge list; owner 0 is the root.
OwnerId(shape, o) == IF o = 0 THEN RootId ELSE Path(shape.nodes[o].path)

\* The identifier XState synthesizes for a delay of ms milliseconds declared
\* by the state sourceId: `xstate.after.${ms}.${sourceId}`
AfterEvent(ms, sourceId) == <<"xstate", Dot, "after", Dot, ms, Dot>> \o sourceId

\* The transitions of the graphs, by kind: a bare event, a delay, and
\* transitions that declare a guard and actions.
TransitionOf(kind, sourceId) ==
    CASE kind = "GO" ->
            [eventType |-> <<"GO">>, guard |-> None, actions |-> <<>>]
      [] kind = "GUARDED" ->
            [eventType |-> <<"GO">>, guard |-> Some(<<"isValid">>),
             actions |-> << <<"save">>, <<"xstate", Dot, "raise">>, <<"log">> >>]
      [] kind = "GUARDED2" ->
            [eventType |-> <<"GO">>, guard |-> Some(<<"isOther">>),
             actions |-> << <<"other">> >>]
      [] kind = "INTERNAL" ->
            [eventType |-> <<"STOP">>, guard |-> None,
             actions |-> << <<"xstate", Dot, "cancel">> >>]
      [] OTHER ->
            [eventType |-> AfterEvent(kind, sourceId),
             guard |-> None, actions |-> <<>>]

\* All sequences over S of length at most k.
SeqsUpTo(S, k) == UNION {[1..m -> S] : m \in 0..k}

\* The placements of one edge: the list that holds it, its target (one of
\* the shape's target nodes), its kind.
Placements(shape, Kinds) ==
    [owner : {0} \cup NodeIds(shape), target : shape.targets, kind : Kinds]

\* The sequences of at most k placements, list by list: the order of two
\* edges matters only within one list.
PlacementSeqs(shape, Kinds, k) ==
    {pls \in SeqsUpTo(Placements(shape, Kinds), k) :
        \A i \in 1..(Len(pls) - 1) : pls[i].owner <= pls[i + 1].owner}

\* The edge list of owner o: the placed edges of o, in placement order.
RECURSIVE EdgesOf(_, _, _)
EdgesOf(shape, pls, o) ==
    IF Len(pls) = 0 THEN <<>>
    ELSE (IF pls[1].owner = o
          THEN << [source |-> OwnerId(shape, o),
                   target |-> Path(shape.nodes[pls[1].target].path),
                   transition |-> TransitionOf(pls[1].kind, OwnerId(shape, o))] >>
          ELSE <<>>)
         \o EdgesOf(shape, Tail(pls), o)

\* A state node that declares nothing but, if compound, its first child as
\* its initial child.
PlainStateNode(shape, n) ==
    [description |-> None, tags |-> Some(<<>>), meta |-> None,
     entry |-> Some(<<>>), exit |-> Some(<<>>), invoke |-> Some(<<>>),
     initial |-> IF Len(shape.nodes[n].children) > 0
                 THEN StringValue(<<shape.nodes[shape.nodes[n].children[1]].path[
                          Len(shape.nodes[shape.nodes[n].children[1]].path)]>>)
                 ELSE Undefined]

\* The graph of a shape, its placed edges, and the state node of every node.
MkGraph(shape, pls, sn) ==
    [id |-> RootId,
     initial |-> StringValue(<<shape.nodes[shape.top[1]].path[2]>>),
     children |-> shape.top,
     edges |-> EdgesOf(shape, pls, 0),
     nodes |-> [n \in NodeIds(shape) |->
                  [id |-> Path(shape.nodes[n].path),
                   children |-> shape.nodes[n].children,
                   edges |-> EdgesOf(shape, pls, n),
                   stateNode |-> sn[n]]]]

\* options = {}
DefaultOptions ==
    [title |-> None, maxDescriptionLength |-> None,
     includeGuards |-> None, includeActions |-> None,
     includeEntryActions |-> None, includeExitActions |-> None,
     includeInvokes |-> None, includeTags |-> None, includeMeta |-> None]

\* Every flag unset but one, which is false.
OptionValues ==
    {DefaultOptions,
     [DefaultOptions EXCEPT !.includeGuards = Some(FALSE)],
     [DefaultOptions EXCEPT !.includeActions = Some(FALSE)],
     [DefaultOptions EXCEPT !.includeEntryActions = Some(FALSE)],
     [DefaultOptions EXCEPT !.includeExitActions = Some(FALSE)],
     [DefaultOptions EXCEPT !.includeInvokes = Some(FALSE)],
     [DefaultOptions EXCEPT !.includeTags = Some(FALSE)],
     [DefaultOptions EXCEPT !.includeMeta = Some(FALSE)],
     [title |-> Some(<<"Orders">>), maxDescriptionLength |-> Some(0),
      includeGuards |-> Some(TRUE), includeActions |-> Some(TRUE),
      includeEntryActions |-> Some(TRUE), includeExitActions |-> Some(TRUE),
      includeInvokes |-> Some(TRUE), includeTags |-> Some(TRUE),
      includeMeta |-> Some(TRUE)]}

\* A state node that declares every field, internal actions among its entry
\* actions.
FullStateNode(shape, n) ==
    [PlainStateNode(shape, n) EXCEPT
        !.description = Some(<<"Waits", Colon, "idle">>),
        !.tags = Some(<< <<"INV", Colon, "ready">>, <<"busy">> >>),
        !.meta = Some(<< [key |-> <<"owner">>,
                          value |-> [kind |-> "scalar", text |-> <<"ops">>]],
                         [key |-> <<"steps">>,
                          value |-> [kind |-> "array",
                                     items |-> << <<"one">>, <<"two">> >>]] >>),
        !.entry = Some(<< <<"notify">>, <<"xstate", Dot, "raise">>, <<"track">> >>),
        !.exit = Some(<< <<"cleanup">> >>),
        !.invoke = Some(<< [src |-> <<"loader">>, id |-> <<"load1">>] >>)]

\* A state node with one tag, an internal entry action only, and an internal
\* exit action before a user one.
OtherStateNode(shape, n) ==
    [PlainStateNode(shape, n) EXCEPT
        !.tags = Some(<< <<"slow">> >>),
        !.entry = Some(<< <<"xstate", Dot, "raise">> >>),
        !.exit = Some(<< <<"xstate", Dot, "cancel">>, <<"flush">> >>)]

\* A state node with a description only.
BriefStateNode(shape, n) ==
    [PlainStateNode(shape, n) EXCEPT !.description = Some(<<"Waits", Colon, "idle">>)]

\* A state node with tags only.
TaggedStateNode(shape, n) ==
    [PlainStateNode(shape, n) EXCEPT !.tags = Some(<< <<"slow">>, <<"busy">> >>)]

\* A state node none of whose fields is defined.
BareStateNode(shape, n) ==
    [description |-> None, tags |-> None, meta |-> None,
     entry |-> None, exit |-> None, invoke |-> None,
     initial |-> PlainStateNode(shape, n).initial]

StateNodeOf(profile, shape, n) ==
    CASE profile = "full" -> FullStateNode(shape, n)
      [] profile = "bare" -> BareStateNode(shape, n)
      [] profile = "other" -> OtherStateNode(shape, n)
      [] profile = "brief" -> BriefStateNode(shape, n)
      [] profile = "tagged" -> TaggedStateNode(shape, n)
      [] OTHER -> PlainStateNode(shape, n)

Profiles == {"plain", "full", "other"}

\* The graphs of the walks: every shape with at most MaxEdges bare edges.
WalkGraphs ==
    UNION {{MkGraph(shape, pls, [n \in NodeIds(shape) |-> PlainStateNode(shape, n)]) :
              pls \in PlacementSeqs(shape, {"GO", "500"}, MaxEdges)} :
           shape \in Shapes}

\* The graphs with one delayed transition, of every delay and placement.
DelayGraphs ==
    UNION {{MkGraph(shape, <<pl>>, [n \in NodeIds(shape) |-> PlainStateNode(shape, n)]) :
              pl \in Placements(shape, DOMAIN DigitValue)} :
           shape \in Shapes}

\* The profiles of the nodes of a shape in the graphs with fields.  In
\* ShapeFlat the second state is not other; in ShapeNested the compound state
\* is plain, its leaf full and the other leaf other; in ShapeTwins the first
\* compound state is not other and its x not plain, the second compound state
\* is plain and its x not full.
FieldProfiles(shape) ==
    {f \in [NodeIds(shape) -> Profiles] :
        CASE shape = ShapeFlat -> f[2] # "other"
          [] shape = ShapeNested -> f = <<"plain", "full", "other">>
          [] OTHER -> /\ f[1] # "other" /\ f[2] # "plain"
                      /\ f[3] = "plain" /\ f[4] # "full"}

\* The graphs with fields: at most MaxRichEdges transitions with guards and
\* actions in the edge list of the first node.
FieldGraphs ==
    UNION {{MkGraph(shape,
                    [i \in 1..Len(kinds) |->
                        [owner |-> 1, target |-> Max(shape.targets), kind |-> kinds[i]]],
                    [n \in NodeIds(shape) |-> StateNodeOf(prof[n], shape, n)]) :
              kinds \in SeqsUpTo({"GUARDED", "GUARDED2", "INTERNAL"}, MaxRichEdges),
              prof \in FieldProfiles(shape)} :
           shape \in {ShapeFlat, ShapeNested, ShapeTwins}}

\* The graph of the length limit: a compound state with a description, its
\* leaf with a short label, a leaf with a longer label, and one transition.
LengthGraph ==
    MkGraph(ShapeNested,
            <<[owner |-> 1, target |-> 3, kind |-> "GO"]>>,
            [n \in NodeIds(ShapeNested) |->
                StateNodeOf(<<"brief", "brief", "other">>[n], ShapeNested, n)])

\* The options with a length limit: unset, 0, and every limit up to the bound.
LengthOptions ==
    {DefaultOptions}
    \cup {[DefaultOptions EXCEPT !.maxDescriptionLength = Some(len)] :
             len \in 0..MaxLenOption}

\* The arguments of formatEventName: events, delay events, and identifiers
\* that carry the delay prefix without being delay events.
SegmentTexts ==
    {<<"GO">>, <<"after ", "lunch">>, <<"m", Dot, "a">>, <<"500">>, <<"500", Dot, "m">>,
     <<"myDelay", Dot, "m">>, <<"5x", Dot, "m">>, <<Dot, "m">>,
     <<"myDelay", Dot, "xstate", Dot, "after", Dot, "500", Dot, "m">>,
     <<"myDelay", Dot, "myxstate", Dot, "after", Dot, "5000", Dot, "m">>}

EventInputs ==
    SegmentTexts
    \cup {<<"xstate", Dot, "after", Dot>> \o t : t \in SegmentTexts}
    \cup {<<"xstate", Dot, "after">>, <<"xstate", Dot, "init">>,
          <<"myxstate", Dot, "after", Dot, "500", Dot, "m">>}
    \cup {AfterEvent(ms, <<"m", Dot, "a">>) : ms \in DOMAIN DigitValue}

----------------------------------------------------------------------------
(* The calls *)

NoCallYet ==
    /\ lines = <<>> /\ seenEdges = {} /\ seenStates = {} /\ processedEdges = {}
    /\ flatOut = <<>> /\ nestedOut = <<>> /\ helperOut = None /\ labelOut = None
    /\ walk = [call |-> "none", machine |-> digraph,
               visited |-> <<>>, examined |-> <<>>]

\* The walks: the edge lists vary.
InitWalk ==
    /\ digraph \in WalkGraphs \cup DelayGraphs
    /\ options = DefaultOptions
    /\ event = <<"GO">>
    /\ NoCallYet

\* The labels: the fields of the nodes and transitions vary, and the options.
InitFields ==
    /\ digraph \in FieldGraphs
    /\ options \in OptionValues
    /\ event = <<"GO">>
    /\ NoCallYet

\* The helper: its argument varies.
InitEvents ==
    /\ digraph = MkGraph(ShapeFlat, <<>>, [n \in NodeIds(ShapeFlat) |-> PlainStateNode(ShapeFlat, n)])
    /\ options = DefaultOptions
    /\ event \in EventInputs
    /\ NoCallYet

\* The length limit: options.maxDescriptionLength varies.
InitLength ==
    /\ digraph = LengthGraph
    /\ options \in LengthOptions
    /\ event = <<"GO">>
    /\ NoCallYet

Init == InitWalk \/ InitFields \/ InitEvents

\* A variant in which the call empties the root edge list it has read.
InputConsumed(graph) == [graph EXCEPT !.edges = <<>>]

\* The graph after a call: the converters and the extractors assign to
\* their own locals only, and call no mutating method on a node, a list or
\* a field.
InputAfterCall(graph) == graph

\* toMermaid(machine, options)
CallToMermaid ==
    /\ Len(flatOut) < MaxCalls
    /\ \E r \in {toMermaid} :
           /\ lines' = r.lines
           /\ seenEdges' = r.seenEdges
           /\ seenStates' = r.seenStates
           /\ flatOut' = Append(flatOut, JoinLines(r.lines))
           /\ walk' = [call |-> "toMermaid", machine |-> digraph, visited |-> r.visited,
                       examined |-> r.examined]
    /\ digraph' = InputAfterCall(digraph)
    /\ UNCHANGED <<options, event, processedEdges, nestedOut, helperOut, labelOut>>

\* toMermaidNested(machine, options)
CallToMermaidNested ==
    /\ Len(nestedOut) < MaxCalls
    /\ \E r \in {toMermaidNested} :
           /\ lines' = r.lines
           /\ processedEdges' = r.processedEdges
           /\ nestedOut' = Append(nestedOut, JoinLines(r.lines))
           /\ walk' = [call |-> "toMermaidNested", machine |-> digraph,
                       visited |-> r.visited,
                       examined |-> r.examined]
    /\ digraph' = InputAfterCall(digraph)
    /\ UNCHANGED <<options, event, seenEdges, seenStates, flatOut, helperOut, labelOut>>

\* formatEventName(event)
CallFormatEventName ==
    /\ helperOut = None
    /\ helperOut' = Some(formatEventName(event))
    /\ UNCHANGED <<digraph, options, event, lines, seenEdges, seenStates,
                   processedEdges, flatOut, nestedOut, labelOut, walk>>

\* The guards of the transitions handed to formatTransitionLabel: none, a
\* named guard, a guard without a type.
GuardInputs == {None, Some(<<"isValid">>), Some(<<>>)}

\* Their action lists: user actions, internal actions, an action without a
\* type, in several orders.
ActionInputs ==
    {<<>>,
     << <<"save">> >>,
     << <<"xstate", Dot, "raise">> >>,
     << <<"xstate", Dot, "raise">>, <<"xstate", Dot, "cancel">> >>,
     << <<"save">>, <<"xstate", Dot, "raise">>, <<"log">> >>,
     << <<"log">>, <<"save">> >>,
     << <<>>, <<"log">>, <<"xstate", Dot, "cancel">>, <<"audit">> >>}

\* formatTransitionLabel({ eventType: event, guard, actions }, options)
CallFormatTransitionLabel ==
    /\ labelOut = None
    /\ \E guard \in GuardInputs, actions \in ActionInputs :
           \E t \in {[eventType |-> event, guard |-> guard, actions |-> actions]} :
               labelOut' = Some([transition |-> t,
                                 label |-> formatTransitionLabel(t, options)])
    /\ UNCHANGED <<digraph, options, event, lines, seenEdges, seenStates,
                   processedEdges, flatOut, nestedOut, helperOut, walk>>

\* The transition labels: the event and the options vary.
InitTransitions ==
    /\ digraph = MkGraph(ShapeFlat, <<>>, [n \in NodeIds(ShapeFlat) |-> PlainStateNode(ShapeFlat, n)])
    /\ options \in {o \in OptionValues :
                       /\ o.includeEntryActions # Some(FALSE)
                       /\ o.includeExitActions # Some(FALSE)
                       /\ o.includeInvokes # Some(FALSE)
                       /\ o.includeTags # Some(FALSE)
                       /\ o.includeMeta # Some(FALSE)}
    /\ event \in EventInputs
    /\ NoCallYet

\* The calls of the two exported label helpers.
NextHelpers == CallFormatEventName \/ CallFormatTransitionLabel

SpecTransitions == InitTransitions /\ [][NextHelpers]_vars

Next == CallToMermaid \/ CallToMermaidNested \/ CallFormatEventName

Spec == Init /\ [][Next]_vars

\* The calls of the two converters alone, on one family of arguments each.
NextConverters == CallToMermaid \/ CallToMermaidNested

\* The graphs of the line order: every shape with at most MaxEdges bare
\* edges of one event.
OrderGraphs ==
    UNION {{MkGraph(shape, pls, [n \in NodeIds(shape) |-> PlainStateNode(shape, n)]) :
              pls \in PlacementSeqs(shape, {"GO"}, MaxEdges)} :
           shape \in Shapes}

\* The line order: the edge lists vary.
InitOrder ==
    /\ digraph \in OrderGraphs
    /\ options = DefaultOptions
    /\ event = <<"GO">>
    /\ NoCallYet

\* The graphs of the shown names: the graphs with fields whose transitions
\* declare user and internal actions.
ShownGraphs ==
    UNION {{MkGraph(shape,
                    [i \in 1..Len(kinds) |->
                        [owner |-> 1, target |-> Max(shape.targets), kind |-> kinds[i]]],
                    [n \in NodeIds(shape) |-> StateNodeOf(prof[n], shape, n)]) :
              kinds \in SeqsUpTo({"GUARDED", "INTERNAL"}, MaxRichEdges),
              prof \in FieldProfiles(shape)} :
           shape \in {ShapeFlat, ShapeNested, ShapeTwins}}

\* The shown names: the fields vary; no option is set, every option is set,
\* or one kind of action is hidden.
InitShown ==
    /\ digraph \in ShownGraphs
    /\ options \in {o \in OptionValues :
                       /\ o.includeGuards # Some(FALSE)
                       /\ o.includeExitActions # Some(FALSE)
                       /\ o.includeInvokes # Some(FALSE)
                       /\ o.includeTags # Some(FALSE)
                       /\ o.includeMeta # Some(FALSE)}
    /\ event = <<"GO">>
    /\ NoCallYet

SpecWalk == InitOrder /\ [][NextConverters]_vars
SpecFields == InitShown /\ [][NextConverters]_vars
SpecLength == InitLength /\ [][NextConverters]_vars

\* The graphs of the state lines: a compound state without fields or with a
\* description, its leaf x and the leaf B, without fields, with tags only,
\* with an internal entry action, or with every field.
LabelGraphs ==
    {MkGraph(ShapeNested, <<>>,
             [n \in NodeIds(ShapeNested) |-> StateNodeOf(f[n], ShapeNested, n)]) :
        f \in {"plain", "brief"} \X {"plain", "tagged", "other"}
              \X {"plain", "tagged", "full"}}

\* The state lines: the flags and the length limit vary.
InitLabels ==
    /\ digraph \in LabelGraphs
    /\ options \in OptionValues \cup LengthOptions
    /\ event = <<"GO">>
    /\ NoCallYet

SpecLabels == InitLabels /\ [][NextConverters]_vars

\* The flags of MermaidOptions
Flags ==
    {"includeGuards", "includeActions", "includeEntryActions",
     "includeExitActions", "includeInvokes", "includeTags", "includeMeta"}

\* The graphs of the flags: every field is declared by a leaf, and a
\* transition with a guard and actions leaves the first node.
FlagGraphs ==
    {MkGraph(shape, <<[owner |-> 1, target |-> Max(shape.targets), kind |-> "GUARDED"]>>,
             [n \in NodeIds(shape) |->
                 StateNodeOf(<<"full", "full", "other">>[n], shape, n)]) :
        shape \in {ShapeFlat, ShapeNested}}

\* The flags: no flag is set to true, at most one to false.
InitFlags ==
    /\ digraph \in FlagGraphs
    /\ options \in {DefaultOptions}
                    \cup {[DefaultOptions EXCEPT ![f] = Some(FALSE)] : f \in Flags}
    /\ event = <<"GO">>
    /\ NoCallYet

\* The caller, having called both converters once, writes out the default of
\* one flag it had left unset: the later calls get `flag: true`.
SetFlagTrue ==
    /\ Len(flatOut) = 1 /\ Len(nestedOut) = 1
    /\ \A f \in Flags : options[f] # Some(TRUE)
    /\ \E f \in Flags :
           /\ options[f] = None
           /\ options' = [options EXCEPT ![f] = Some(TRUE)]
    /\ UNCHANGED <<digraph, event, lines, seenEdges, seenStates, processedEdges,
                   flatOut, nestedOut, helperOut, labelOut, walk>>

NextFlags == CallToMermaid \/ CallToMermaidNested \/ SetFlagTrue

SpecFlags == InitFlags /\ [][NextFlags]_vars

\* The forms of a declared initial child: absent, the key of the child, or
\* an object that names the child as its target.
InitialForms == {"undefined", "string", "object"}

\* The declaration of the same initial child in another form.
InitialAs(form, initial) ==
    IF initial.type = "undefined" THEN initial
    ELSE CASE form = "string" -> StringValue(initial.value)
           [] form = "object" -> ObjectValue(initial.value)
           [] OTHER -> Undefined

\* The graphs of the initial markers: the shapes with a compound state and
\* at most one bare edge; the machine and each compound state declare the
\* first child as initial child in one of the forms, or declare none.
MarkerGraphs ==
    UNION {{[g EXCEPT
               !.initial = InitialAs(form[1], @),
               !.nodes = [n \in DOMAIN g.nodes |->
                            [g.nodes[n] EXCEPT
                               !.stateNode.initial = InitialAs(form[n + 1], @)]]] :
              form \in [1..(Len(g.nodes) + 1) -> InitialForms]} :
           g \in UNION {{MkGraph(shape, pls,
                                 [n \in NodeIds(shape) |-> PlainStateNode(shape, n)]) :
                            pls \in PlacementSeqs(shape, {"GO"}, 1)} :
                         shape \in {ShapeNested, ShapeTwins, ShapeDeep}}}

\* The initial markers: the declarations of the initial children vary.
InitMarkers ==
    /\ digraph \in MarkerGraphs
    /\ options = DefaultOptions
    /\ event = <<"GO">>
    /\ NoCallYet

SpecMarkers == InitMarkers /\ [][NextConverters]_vars

\* The declared descriptions: none, the empty string, and texts without a
\* colon, with one, with several, with the abbreviation INV.
DescriptionInputs ==
    {None, Some(<<>>), Some(<<"idle">>), Some(<<"Waits", Colon, "idle">>),
     Some(<<Colon>>), Some(<<"a", Colon, "b", Colon, Colon>>),
     Some(<<"INV", Colon, "x", Colon, "y">>), Some(<<"Inv", Colon, "ready">>)}

\* The graphs of the descriptions: the compound state p and the leaf B
\* declare a description, or none, and no other field; so do a compound
\* state, the compound state inside it and the leaf of that one.
DescribedGraphs ==
    {MkGraph(ShapeNested, <<>>,
             [n \in NodeIds(ShapeNested) |->
                 [PlainStateNode(ShapeNested, n) EXCEPT !.description = d[n]]]) :
        d \in DescriptionInputs \X {None} \X DescriptionInputs}
    \cup {MkGraph(ShapeDeep, <<>>,
                  [n \in NodeIds(ShapeDeep) |->
                      [PlainStateNode(ShapeDeep, n) EXCEPT !.description = d[n]]]) :
             d \in [NodeIds(ShapeDeep) -> {None, Some(<<"Waits", Colon, "idle">>)}]}

\* The descriptions: the declared texts vary.
InitDescriptions ==
    /\ digraph \in DescribedGraphs
    /\ options = DefaultOptions
    /\ event = <<"GO">>
    /\ NoCallYet

SpecDescriptions == InitDescriptions /\ [][NextConverters]_vars

\* The graphs of the extractors: every node declares every field, some
\* fields, empty lists, or has no field defined at all.
ExtractorGraphs ==
    {MkGraph(ShapeNested, <<>>,
             [n \in NodeIds(ShapeNested) |-> StateNodeOf(f[n], ShapeNested, n)]) :
        f \in [NodeIds(ShapeNested) -> {"bare", "plain", "full", "other"}]}

\* The extractors: the fields the nodes declare vary.
InitExtractors ==
    /\ digraph \in ExtractorGraphs
    /\ options = DefaultOptions
    /\ event = <<"GO">>
    /\ NoCallYet

SpecExtractors == InitExtractors /\ [][NextConverters]_vars

\* The orders of three declared items.
Orders == {<<1, 2, 3>>, <<1, 3, 2>>, <<2, 1, 3>>, <<2, 3, 1>>, <<3, 1, 2>>, <<3, 2, 1>>}

\* The items of a list in the order ord.
InOrder(items, ord) == [i \in 1..Len(ord) |-> items[ord[i]]]

\* The graphs of the declaration order: state a declares three tags, three
\* exit actions (one internal) in the order f, three entry actions (one
\* internal) and three invoked actors in the order g, and its transition to
\* B three actions (one internal) in the order g.
DeclarationGraphs ==
    {[MkGraph(ShapeFlat, <<[owner |-> 1, target |-> 2, kind |-> "GUARDED"]>>,
              [n \in NodeIds(ShapeFlat) |-> PlainStateNode(ShapeFlat, n)])
       EXCEPT
         !.nodes[1].stateNode.tags =
             Some(InOrder(<< <<"slow">>, <<"busy">>, <<"ready">> >>, f)),
         !.nodes[1].stateNode.exit =
             Some(InOrder(<< <<"cleanup">>, <<"xstate", Dot, "cancel">>, <<"flush">> >>, f)),
         !.nodes[1].stateNode.entry =
             Some(InOrder(<< <<"notify">>, <<"xstate", Dot, "raise">>, <<"track">> >>, g)),
         !.nodes[1].stateNode.invoke =
             Some(InOrder(<< [src |-> <<"loader">>, id |-> <<"load1">>],
                             [src |-> <<"poller">>, id |-> <<"poll2">>],
                             [src |-> <<"timer">>, id |-> <<"tick3">>] >>, g)),
         !.nodes[1].edges[1].transition.actions =
             InOrder(<< <<"save">>, <<"xstate", Dot, "raise">>, <<"log">> >>, g)] :
       f \in Orders, g \in Orders}

\* The declaration order: the orders of the declared items vary.
InitDeclarations ==
    /\ digraph \in DeclarationGraphs
    /\ options \in {o \in OptionValues : \A f \in Flags : o[f] # Some(FALSE)}
    /\ event = <<"GO">>
    /\ NoCallYet

SpecDeclarations == InitDeclarations /\ [][NextConverters]_vars

\* The machines of a caller that converts several of them: they share
\* state names and edge keys.
SwitchGraphs ==
    {MkGraph(ShapeNested, <<[owner |-> 1, target |-> 3, kind |-> "GO"]>>,
             [n \in NodeIds(ShapeNested) |-> PlainStateNode(ShapeNested, n)]),
     MkGraph(ShapeNested, <<[owner |-> 0, target |-> 2, kind |-> "GO"],
                            [owner |-> 1, target |-> 3, kind |-> "GO"]>>,
             [n \in NodeIds(ShapeNested) |-> StateNodeOf("other", ShapeNested, n)]),
     MkGraph(ShapeFlat, <<[owner |-> 0, target |-> 2, kind |-> "GO"],
                          [owner |-> 1, target |-> 2, kind |-> "GO"]>>,
             [n \in NodeIds(ShapeFlat) |-> PlainStateNode(ShapeFlat, n)])}

\* Several machines: the caller starts with one of them.
InitSwitch ==
    /\ digraph \in SwitchGraphs
    /\ options = DefaultOptions
    /\ event = <<"GO">>
    /\ NoCallYet

\* The caller turns to another machine: the next calls get that one.
SwitchMachine ==
    /\ digraph' \in SwitchGraphs \ {digraph}
    /\ UNCHANGED <<options, event, lines, seenEdges, seenStates, processedEdges,
                   flatOut, nestedOut, helperOut, labelOut, walk>>

NextSwitch == CallToMermaid \/ CallToMermaidNested \/ SwitchMachine

SpecSwitch == InitSwitch /\ [][NextSwitch]_vars

\* The graphs of the frame: the graphs of the line order, every node with
\* every field.
FrameGraphs ==
    UNION {{MkGraph(shape, pls, [n \in NodeIds(shape) |-> FullStateNode(shape, n)]) :
              pls \in PlacementSeqs(shape, {"GUARDED"}, MaxEdges)} :
           shape \in {ShapeFlat, ShapeNested}}

\* The frame: the edge lists vary.
InitFrame ==
    /\ digraph \in FrameGraphs
    /\ options = DefaultOptions
    /\ event = <<"GO">>
    /\ NoCallYet

SpecFrame == InitFrame /\ [][NextConverters]_vars

\* The graphs of the leaf lines: the nested and the twin shape without
\* edges, the nodes with every, some or no field.
LeafGraphs ==
    UNION {{MkGraph(shape, <<>>,
                    [n \in NodeIds(shape) |-> StateNodeOf(prof[n], shape, n)]) :
              prof \in FieldProfiles(shape)} :
           shape \in {ShapeNested, ShapeTwins}}

\* The leaf lines: the fields and the options vary.
InitLeaves ==
    /\ digraph \in LeafGraphs
    /\ options \in OptionValues
    /\ event = <<"GO">>
    /\ NoCallYet

SpecLeaves == InitLeaves /\ [][NextConverters]_vars

----------------------------------------------------------------------------
(* Reading an output text back: its lines, and the parts of a line *)

\* text.split("\n")
RECURSIVE SplitLines(_)
SplitLines(text) ==
    LET breaks == {i \in 1..Len(text) : text[i] = "\n"}
    IN  IF breaks = {} THEN <<text>>
        ELSE <<SubSeq(text, 1, Min(breaks) - 1)>>
             \o SplitLines(SubSeq(text, Min(breaks) + 1, Len(text)))

\* The number of leading indentation units of a line.
RECURSIVE Indent(_)
Indent(line) ==
    IF Len(line) > 0 /\ line[1] = "    " THEN 1 + Indent(Tail(line)) ELSE 0

Unpadded(line) == SubSeq(line, Indent(line) + 1, Len(line))

IsTransitionLine(line) == \E i \in 1..Len(line) : line[i] = " --> "
IsContainerOpen(line) ==
    LET l == Unpadded(line)
    IN  Len(l) >= 2 /\ l[1] = "state " /\ l[Len(l)] = " {"
IsContainerClose(line) == Unpadded(line) = <<"}">>

ArrowAt(line) == Min({i \in 1..Len(line) : line[i] = " --> "})
ColonAt(line) == Min({i \in 1..Len(line) : i > ArrowAt(line) /\ line[i] = ": "})

\* The event part of a transition label: what precedes the guard marker and
\* the action line.
EventPart(label) ==
    LET stops == {i \in 1..Len(label) : label[i] \in {" IF ", Br}}
    IN  IF stops = {} THEN label ELSE SubSeq(label, 1, Min(stops) - 1)

\* (source short name, target short name, formatted event label) of a
\* transition line
LineTriple(line) ==
    LET l == Unpadded(line)
    IN  <<SubSeq(l, 1, ArrowAt(l) - 1),
          SubSeq(l, ArrowAt(l) + 1, ColonAt(l) - 1),
          EventPart(SubSeq(l, ColonAt(l) + 1, Len(l)))>>

\* The same triple of an edge of the graph
EdgeTriple(edge) ==
    <<getStateName(edge.source), getStateName(edge.target),
      EventPart(formatTransitionLabel(edge.transition, labelOptions))>>

\* The positions of the transition lines of an output text
TransitionLineIndexes(out) ==
    {i \in 1..Len(SplitLines(out)) : IsTransitionLine(SplitLines(out)[i])}

TransitionTriples(out) ==
    {LineTriple(SplitLines(out)[i]) : i \in TransitionLineIndexes(out)}

Range(f) == {f[i] : i \in DOMAIN f}

\* Every edge of the graph: those of the root list and of every node's list
AllEdges ==
    Range(digraph.edges)
    \cup UNION {Range(digraph.nodes[n].edges) : n \in DOMAIN digraph.nodes}

\* The edges held in the list of a node without children
LeafEdges ==
    UNION {Range(digraph.nodes[n].edges) :
             n \in {m \in DOMAIN digraph.nodes : Len(digraph.nodes[m].children) = 0}}

\* A machine with no compound states
NoCompound == \A n \in DOMAIN digraph.nodes : Len(digraph.nodes[n].children) = 0

----------------------------------------------------------------------------
(* C1 *)

\* C1: for every graph, toMermaid emits each transition edge exactly once,
\* identifying an edge by (source short name, target short name, formatted
\* event label): no triple of the graph is missing from the output and no
\* triple occurs on two output lines.
C1_EdgesExactlyOnce ==
    \A k \in 1..Len(flatOut) :
        /\ \A e \in AllEdges : EdgeTriple(e) \in TransitionTriples(flatOut[k])
        /\ \A i, j \in TransitionLineIndexes(flatOut[k]) :
              i # j => LineTriple(SplitLines(flatOut[k])[i])
                       # LineTriple(SplitLines(flatOut[k])[j])

----------------------------------------------------------------------------
(* C2 *)

\* C2: for every machine with no compound states, toMermaidNested emits a
\* transition line for every transition edge of the graph, the edges held in
\* the edge list of a leaf node included.
C2_FlatMachineNestedEmitsAll ==
    NoCompound =>
        \A k \in 1..Len(nestedOut) :
            \A e \in AllEdges : EdgeTriple(e) \in TransitionTriples(nestedOut[k])

----------------------------------------------------------------------------
(* C3 *)

\* The nesting depth of a node: the number of keys of its id below the root.
Depth(id) == Cardinality({i \in 1..Len(id) : id[i] = Dot})

\* The position of the `state C {` line of the compound node c in the lines
\* ls, and of the `}` line that closes it (0 when there is none).
OpenIndex(ls, c) ==
    LET hits == {i \in 1..Len(ls) :
                   ls[i] = Pad(Depth(c.id)) \o <<"state ">> \o getStateName(c.id) \o <<" {">>}
    IN  IF hits = {} THEN 0 ELSE Min(hits)

CloseIndex(ls, c) ==
    LET hits == {i \in 1..Len(ls) :
                   i > OpenIndex(ls, c) /\ ls[i] = Pad(Depth(c.id)) \o <<"}">>}
    IN  IF OpenIndex(ls, c) = 0 \/ hits = {} THEN 0 ELSE Min(hits)

CompoundNodes == {n \in DOMAIN digraph.nodes : Len(digraph.nodes[n].children) > 0}

\* The edges whose source is a child of the compound node c
EdgesFromChildrenOf(c) ==
    {e \in AllEdges : \E i \in 1..Len(digraph.nodes[c].children) :
                          e.source = digraph.nodes[digraph.nodes[c].children[i]].id}

\* C3: in toMermaidNested, every transition edge whose source is a child of
\* a compound state C is emitted, and its line lies between the `state C {`
\* line of C and the matching `}` line.
C3_ChildEdgesInsideContainer ==
    \A k \in 1..Len(nestedOut) :
        \A c \in CompoundNodes :
            \A e \in EdgesFromChildrenOf(c) :
                LET ls == SplitLines(nestedOut[k])
                IN  \E i \in 1..Len(ls) :
                        /\ IsTransitionLine(ls[i])
                        /\ LineTriple(ls[i]) = EdgeTriple(e)
                        /\ OpenIndex(ls, digraph.nodes[c]) < i
                        /\ i < CloseIndex(ls, digraph.nodes[c])

----------------------------------------------------------------------------
(* C4 *)

\* The transition lines of an output text, without their indentation
TransitionLines(out) ==
    {Unpadded(SplitLines(out)[i]) : i \in TransitionLineIndexes(out)}

HasContainerLine(out) ==
    \E i \in 1..Len(SplitLines(out)) :
        IsContainerOpen(SplitLines(out)[i]) \/ IsContainerClose(SplitLines(out)[i])

\* C4: for every machine with zero compound states, the set of transition
\* lines of toMermaidNested(m) equals the set of transition lines of
\* toMermaid(m), and toMermaidNested(m) contains no `state X {` line and no
\* `}` line.
C4_NestedEqualsFlatOnFlatInput ==
    NoCompound =>
        \A k \in 1..Len(nestedOut) :
            /\ ~HasContainerLine(nestedOut[k])
            /\ \A j \in 1..Len(flatOut) :
                  TransitionLines(nestedOut[k]) = TransitionLines(flatOut[j])

----------------------------------------------------------------------------
(* C5, C6 *)

StartsWith(text, prefix) ==
    Len(text) >= Len(prefix) /\ SubSeq(text, 1, Len(prefix)) = prefix

\* The lines of ls written for the state called name: its state line, its
\* container line and its note.
NodeLines(ls, name) ==
    {ls[i] : i \in {j \in 1..Len(ls) :
                      \/ StartsWith(Unpadded(ls[j]), name \o <<": ">>)
                      \/ StartsWith(Unpadded(ls[j]), <<"state ">> \o name \o <<" {">>)
                      \/ StartsWith(Unpadded(ls[j]), <<"note right of ">> \o name \o <<": ">>)}}

Declared(field) == IF IsSome(field) THEN Val(field) ELSE <<>>

\* The texts a label must contain to render the tags, the meta keys and
\* values, the non-internal entry and exit actions and the invoked actors
\* that the node declares.
FieldRenderings(node) ==
    LET sn == node.stateNode
    IN  {escapeMermaidText(Declared(sn.tags)[i]) : i \in 1..Len(Declared(sn.tags))}
        \cup {Declared(sn.meta)[i].key : i \in 1..Len(Declared(sn.meta))}
        \cup {MetaValueText(Declared(sn.meta)[i].value) : i \in 1..Len(Declared(sn.meta))}
        \cup {a \in Range(Declared(sn.entry)) \cup Range(Declared(sn.exit)) :
                Len(a) > 0 /\ ~StartsWith(a, <<"xstate", Dot>>)}
        \cup {escapeMermaidText(Declared(sn.invoke)[i].src) : i \in 1..Len(Declared(sn.invoke))}
        \cup {escapeMermaidText(Declared(sn.invoke)[i].id) : i \in 1..Len(Declared(sn.invoke))}

\* The same for the declared description.
DescriptionRenderings(node) ==
    IF IsSome(node.stateNode.description) /\ Len(Val(node.stateNode.description)) > 0
    THEN {escapeMermaidText(Val(node.stateNode.description))} ELSE {}

\* The texts a transition label must contain to render the guard and the
\* non-internal actions of the transition.
TransitionRenderings(t) ==
    (IF IsSome(t.guard) /\ Len(Val(t.guard)) > 0 THEN {Val(t.guard)} ELSE {})
    \cup {a \in Range(t.actions) : Len(a) > 0 /\ ~StartsWith(a, <<"xstate", Dot>>)}

\* Some line of ls for the state called name contains the text.
RenderedFor(ls, name, text) == \E l \in NodeLines(ls, name) : Contains(l, text)

\* Some transition line of ls between the short names of the ends of the
\* edge and with its event contains the text.
RenderedOnEdge(ls, e, text) ==
    \E i \in 1..Len(ls) :
        /\ IsTransitionLine(ls[i])
        /\ LineTriple(ls[i]) = EdgeTriple(e)
        /\ Contains(ls[i], text)

\* C5: with default options, the output of toMermaid contains, for every
\* state, a rendering of every declared description, tag, meta key with its
\* value, non-internal entry action, non-internal exit action and invoked
\* actor of that state, and for every transition a rendering of its guard
\* and of its non-internal actions.
C5_FlatRendersEveryField ==
    options = DefaultOptions =>
        \A k \in 1..Len(flatOut) :
            LET ls == SplitLines(flatOut[k])
            IN  /\ \A n \in DOMAIN digraph.nodes :
                      \A text \in FieldRenderings(digraph.nodes[n])
                                  \cup DescriptionRenderings(digraph.nodes[n]) :
                          RenderedFor(ls, getStateName(digraph.nodes[n].id), text)
                /\ \A e \in AllEdges :
                      \A text \in TransitionRenderings(e.transition) :
                          RenderedOnEdge(ls, e, text)

\* C6: with default options, toMermaidNested renders the declared tags,
\* meta, entry actions, exit actions and invoked actors of every state,
\* compound states included.
C6_NestedRendersEveryField ==
    options = DefaultOptions =>
        \A k \in 1..Len(nestedOut) :
            \A n \in DOMAIN digraph.nodes :
                \A text \in FieldRenderings(digraph.nodes[n]) :
                    RenderedFor(SplitLines(nestedOut[k]),
                                getStateName(digraph.nodes[n].id), text)

----------------------------------------------------------------------------
(* C7 *)

Outputs == Range(flatOut) \cup Range(nestedOut)

InternalAction(a) == StartsWith(a, <<"xstate", Dot>>)

\* C7: for every machine and every options value, no action identifier that
\* begins with the reserved prefix `xstate.` appears in an entry-actions
\* section, an exit-actions section or a transition action line of the
\* output of toMermaid or toMermaidNested: no action mark is followed by the
\* prefix.
C7_NoInternalActionShown ==
    \A out \in Outputs : ~Contains(out, <<"[{koppa} ", "xstate", Dot>>)

\* Both converters have run on a graph with an internal entry action among
\* user entry actions and an internal action among the user actions of an
\* emitted transition, and both show the user actions.
C7_Witness ==
    /\ Len(flatOut) > 0 /\ Len(nestedOut) > 0
    /\ \E n \in DOMAIN digraph.nodes :
          \E a \in Range(Declared(digraph.nodes[n].stateNode.entry)) : InternalAction(a)
    /\ \E n \in DOMAIN digraph.nodes :
          \E a \in Range(Declared(digraph.nodes[n].stateNode.exit)) : InternalAction(a)
    /\ \E e \in AllEdges : \E a \in Range(e.transition.actions) : InternalAction(a)
    /\ \A out \in Outputs :
          /\ Contains(out, <<"[{koppa} ", "notify", "]">>)
          /\ Contains(out, <<"[{koppa} ", "flush", "]">>)
          /\ Contains(out, <<"[{koppa} ", "save", "]", " ", "[{koppa} ", "log", "]">>)

----------------------------------------------------------------------------
(* C8 *)

----------------------------------------------------------------------------
(* C9 *)

\* The places of the edges in the edge lists: <<0, i>> in the root list,
\* <<n, i>> in the list of node n.
EdgeSlots ==
    {<<0, i>> : i \in 1..Len(digraph.edges)}
    \cup UNION {{<<n, i>> : i \in 1..Len(digraph.nodes[n].edges)} :
                  n \in DOMAIN digraph.nodes}

\* The reserved delay-event pattern: the prefix, a millisecond count, and
\* further path segments.
IsDelayEvent(ev) ==
    /\ Len(ev) >= 6 /\ StartsWithAfterPrefix(ev)
    /\ IsDigits(ev[5]) /\ ev[6] = Dot

\* The label of a transition line
LineLabel(line) ==
    SubSeq(Unpadded(line), ColonAt(Unpadded(line)) + 1, Len(Unpadded(line)))

\* C9: for every millisecond count N and every machine with one delayed
\* transition whose event identifier is `xstate.after.N.<path>`, the output
\* of toMermaid and of toMermaidNested contains exactly one transition line,
\* and its label shows the raw duration: `after Nms`, the word after
\* emphasised or not.
C9_DelayShownOnceInRawMs ==
    \A e \in AllEdges :
        (Cardinality(EdgeSlots) = 1 /\ IsDelayEvent(e.transition.eventType)) =>
            \A out \in Outputs :
                /\ Cardinality(TransitionLineIndexes(out)) = 1
                /\ \A i \in TransitionLineIndexes(out) :
                      LineLabel(SplitLines(out)[i])
                          \in {<<"after ", e.transition.eventType[5], "ms">>,
                               <<"<i>after</i> ", e.transition.eventType[5], "ms">>}

\* The same of toMermaid alone.
C9_FlatDelayShownOnceInRawMs ==
    \A e \in AllEdges :
        (Cardinality(EdgeSlots) = 1 /\ IsDelayEvent(e.transition.eventType)) =>
            \A out \in Range(flatOut) :
                /\ Cardinality(TransitionLineIndexes(out)) = 1
                /\ \A i \in TransitionLineIndexes(out) :
                      LineLabel(SplitLines(out)[i])
                          \in {<<"after ", e.transition.eventType[5], "ms">>,
                               <<"<i>after</i> ", e.transition.eventType[5], "ms">>}

----------------------------------------------------------------------------
(* C10 *)

\* C10: formatEventName returns its argument unchanged for every identifier
\* that is not a delay event, those included that start with the delay
\* prefix `xstate.after.` without a millisecond count after it.
C10_NonDelayEventUnchanged ==
    (IsSome(helperOut) /\ ~IsDelayEvent(event)) => Val(helperOut) = event

----------------------------------------------------------------------------
(* C11 *)

\* The characters of a text
Chars(text) == Flatten([i \in 1..Len(text) |-> CharPieces(text[i])])

\* A state line `name: label`, a note line `note right of name: text`
IsStateLine(line) == Len(Unpadded(line)) >= 3 /\ Unpadded(line)[2] = ": "
IsNoteLine(line) ==
    /\ Len(Unpadded(line)) >= 4
    /\ Unpadded(line)[1] = "note right of " /\ Unpadded(line)[3] = ": "

\* The fields of a node that the options leave to render
ShownEntry(node) == IF includeEntry THEN getEntryActions(node) ELSE <<>>
ShownExit(node) == IF includeExit THEN getExitActions(node) ELSE <<>>
ShownInvokes(node) == IF includeInvoke THEN getInvokes(node) ELSE <<>>
ShownTags(node) == IF includeTagsOpt THEN getTags(node) ELSE <<>>
ShownMeta(node) == IF includeMetaOpt THEN getMeta(node) ELSE None

HasRenderableField(node) ==
    \/ IsSome(getDescription(node)) \/ Len(ShownTags(node)) > 0
    \/ (IsSome(ShownMeta(node)) /\ Len(Val(ShownMeta(node))) > 0)
    \/ Len(ShownEntry(node)) > 0 \/ Len(ShownExit(node)) > 0
    \/ Len(ShownInvokes(node)) > 0

\* The assembled label of a node: its sections joined, no limit applied
AssembledLabel(node) ==
    buildStateLabel(getStateName(node.id), getDescription(node), ShownTags(node),
                    ShownMeta(node), ShownEntry(node), ShownExit(node),
                    ShownInvokes(node), 0)

\* Is emitted what the limit makes of text, character by character: text
\* itself when it is not longer than the limit or the limit is 0, else its
\* first limit characters and three dots.
IsLimited(emitted, text, limit) ==
    IF limit > 0 /\ Len(Chars(text)) > limit
    THEN Chars(emitted) = SubSeq(Chars(text), 1, limit) \o <<".", ".", ".">>
    ELSE emitted = text

NodesNamed(name) ==
    {n \in DOMAIN digraph.nodes : getStateName(digraph.nodes[n].id) = name}

\* C11: with maxDescriptionLength = L > 0, every state label (and every note
\* of a container) whose assembled text is longer than L characters is
\* emitted as its first L characters followed by `...`, and one of at most L
\* characters is emitted unchanged; with L = 0 or unset nothing is truncated.
C11_LabelCutAtLimit ==
    \A out \in Outputs :
        \A ls \in {SplitLines(out)} :
            \A i \in 1..Len(ls) :
                \A l \in {Unpadded(ls[i])} :
                    /\ IsStateLine(l) =>
                        \E n \in NodesNamed(<<l[1]>>) :
                            IF HasRenderableField(digraph.nodes[n])
                            THEN IsLimited(SubSeq(l, 3, Len(l)),
                                           AssembledLabel(digraph.nodes[n]), maxLen)
                            ELSE SubSeq(l, 3, Len(l)) = <<l[1]>>
                    /\ IsNoteLine(l) =>
                        \E n \in NodesNamed(<<l[2]>>) :
                            /\ IsSome(getDescription(digraph.nodes[n]))
                            /\ IsLimited(SubSeq(l, 4, Len(l)),
                                         Val(getDescription(digraph.nodes[n])), maxLen)

\* Both converters have run with a limit that is shorter than the label of
\* one state and not shorter than the label of another, nor than a note.
C11_Witness ==
    /\ Len(flatOut) > 0 /\ Len(nestedOut) > 0
    /\ maxLen > 0
    /\ \E n \in DOMAIN digraph.nodes :
          /\ HasRenderableField(digraph.nodes[n])
          /\ Len(Chars(AssembledLabel(digraph.nodes[n]))) > maxLen
          /\ Contains(flatOut[1], <<"...">>) /\ Contains(nestedOut[1], <<"...">>)
    /\ \E n \in DOMAIN digraph.nodes :
          /\ HasRenderableField(digraph.nodes[n])
          /\ Len(Chars(AssembledLabel(digraph.nodes[n]))) = maxLen
    /\ \E i \in 1..Len(SplitLines(nestedOut[1])) : IsNoteLine(SplitLines(nestedOut[1])[i])

----------------------------------------------------------------------------
(* C12 *)

\* The nodes below a list of children in depth-first pre-order
RECURSIVE PreOrder(_)
PreOrder(children) ==
    IF Len(children) = 0 THEN <<>>
    ELSE <<children[1]>> \o PreOrder(digraph.nodes[children[1]].children)
         \o PreOrder(Tail(children))

\* The first node of the walk with the short name of node n
FirstNamedLike(n) ==
    LET order == PreOrder(digraph.children)
    IN  order[Min({i \in 1..Len(order) :
                     getStateName(digraph.nodes[order[i]].id)
                     = getStateName(digraph.nodes[n].id)})]

StateLineIndexes(ls, name) ==
    {i \in 1..Len(ls) : IsStateLine(ls[i]) /\ Unpadded(ls[i])[1] = name[1]}

\* C12: the output of toMermaid has exactly one state line for each distinct
\* short name among the nodes reachable through child links, and it is the
\* line of the first node with that short name in depth-first pre-order: a
\* later node with the same short name has no state line.
C12_OneStateLinePerShortName ==
    \A k \in 1..Len(flatOut) :
        \A ls \in {SplitLines(flatOut[k])} :
            /\ \A n \in Range(PreOrder(digraph.children)) :
                  \A hits \in {StateLineIndexes(ls, getStateName(digraph.nodes[n].id))} :
                      /\ Cardinality(hits) = 1
                      /\ \A i \in hits :
                            ls[i] = StateLine(Pad(1), digraph.nodes[FirstNamedLike(n)])
            /\ \A i \in 1..Len(ls) :
                  IsStateLine(ls[i]) =>
                      \E n \in Range(PreOrder(digraph.children)) :
                          <<Unpadded(ls[i])[1]>> = getStateName(digraph.nodes[n].id)

\* toMermaid has run on a graph where two nodes share a short name and
\* would have different state lines.
C12_Witness ==
    /\ Len(flatOut) > 0
    /\ \E n \in DOMAIN digraph.nodes :
          /\ FirstNamedLike(n) # n
          /\ StateLine(Pad(1), digraph.nodes[n])
             # StateLine(Pad(1), digraph.nodes[FirstNamedLike(n)])

----------------------------------------------------------------------------
(* C13 *)

\* The edge lists in the order toMermaid reads them: the root list, then the
\* list of every node in depth-first pre-order; owner 0 is the root.
OwnersInOrder == <<0>> \o PreOrder(digraph.children)

EdgeListOf(o) == IF o = 0 THEN digraph.edges ELSE digraph.nodes[o].edges

\* Edge j of the list at place i of OwnersInOrder repeats the key of an edge
\* read before it.
IsDuplicateEdge(i, j) ==
    \E i2 \in 1..i : \E j2 \in 1..Len(EdgeListOf(OwnersInOrder[i2])) :
        /\ (i2 < i \/ j2 < j)
        /\ FlatKey(EdgeListOf(OwnersInOrder[i2])[j2])
           = FlatKey(EdgeListOf(OwnersInOrder[i])[j])

\* The lines of the non-duplicate edges of list i, from edge j on
RECURSIVE OwnEdgeLines(_, _)
OwnEdgeLines(i, j) ==
    IF j > Len(EdgeListOf(OwnersInOrder[i])) THEN <<>>
    ELSE (IF IsDuplicateEdge(i, j) THEN <<>>
          ELSE <<EdgeLine(Pad(1), EdgeListOf(OwnersInOrder[i])[j])>>)
         \o OwnEdgeLines(i, j + 1)

\* The block of the owner at place i: its state line unless an earlier node
\* has its short name, then its own non-duplicate edge lines.
FlatBlock(i) ==
    (IF OwnersInOrder[i] # 0 /\ FirstNamedLike(OwnersInOrder[i]) = OwnersInOrder[i]
     THEN <<StateLine(Pad(1), digraph.nodes[OwnersInOrder[i]])>> ELSE <<>>)
    \o OwnEdgeLines(i, 1)

\* The lines before the walk: the diagram kind and the initial marker
HeaderLines ==
    << <<"stateDiagram-v2">> >> \o InitialMarker(Pad(1), digraph.initial)

\* C13: toMermaid emits its lines in traversal order: after the header lines
\* come the root-level edge lines, then the nodes in depth-first pre-order,
\* each node's state line immediately followed by that node's own
\* non-duplicate edge lines, all before every line of its children.
C13_FlatLinesInTraversalOrder ==
    \A k \in 1..Len(flatOut) :
        SplitLines(flatOut[k])
        = HeaderLines \o Flatten([i \in 1..Len(OwnersInOrder) |-> FlatBlock(i)])

\* toMermaid has run on a graph with a root-level edge and a compound node
\* that has an edge of its own and a child.
C13_Witness ==
    /\ Len(flatOut) > 0
    /\ Len(digraph.edges) > 0
    /\ \E n \in CompoundNodes : Len(digraph.nodes[n].edges) > 0

----------------------------------------------------------------------------
(* C14 *)

\* Edge j of a list repeats the ends and the event of an earlier edge of the
\* list (the lists of two owners share no such edge: the source is the owner).
RepeatsInList(edges, j) ==
    \E j2 \in 1..(j - 1) : NestedKey(edges[j2]) = NestedKey(edges[j])

RECURSIVE OwnNestedEdgeLines(_, _, _)
OwnNestedEdgeLines(edges, j, pad) ==
    IF j > Len(edges) THEN <<>>
    ELSE (IF RepeatsInList(edges, j) THEN <<>> ELSE <<EdgeLine(pad, edges[j])>>)
         \o OwnNestedEdgeLines(edges, j + 1, pad)

\* The lines of a node in nested mode.  Compound: the container line, the
\* initial marker, the lines of the children one level deeper, the node's
\* own edge lines, the closing line, and the note of its description.
RECURSIVE NestedBlock(_, _), NestedBlocks(_, _)
NestedBlock(n, indent) ==
    IF Len(digraph.nodes[n].children) > 0
    THEN << Pad(indent) \o <<"state ">> \o getStateName(digraph.nodes[n].id) \o <<" {">> >>
         \o InitialMarker(Pad(indent + 1), digraph.nodes[n].stateNode.initial)
         \o NestedBlocks(digraph.nodes[n].children, indent + 1)
         \o OwnNestedEdgeLines(digraph.nodes[n].edges, 1, Pad(indent + 1))
         \o << Pad(indent) \o <<"}">> >>
         \o (IF IsSome(getDescription(digraph.nodes[n]))
             THEN << Pad(indent) \o <<"note right of ">>
                     \o getStateName(digraph.nodes[n].id) \o <<": ">>
                     \o Truncate(Val(getDescription(digraph.nodes[n])), maxLen) >>
             ELSE <<>>)
    ELSE <<StateLine(Pad(indent), digraph.nodes[n])>>

NestedBlocks(children, indent) ==
    IF Len(children) = 0 THEN <<>>
    ELSE NestedBlock(children[1], indent) \o NestedBlocks(Tail(children), indent)

----------------------------------------------------------------------------
(* C15 *)

OutputLines == UNION {Range(SplitLines(out)) : out \in Outputs}

IsOff(flag) == options[flag] = Some(FALSE)

\* The user entry and exit actions and the tags some node declares
DeclaredEntryNames ==
    UNION {{a \in Range(Declared(digraph.nodes[n].stateNode.entry)) : ~InternalAction(a)} :
             n \in DOMAIN digraph.nodes}
DeclaredExitNames ==
    UNION {{a \in Range(Declared(digraph.nodes[n].stateNode.exit)) : ~InternalAction(a)} :
             n \in DOMAIN digraph.nodes}
DeclaredTagTexts ==
    UNION {{escapeMermaidText(t) : t \in Range(Declared(digraph.nodes[n].stateNode.tags))} :
             n \in DOMAIN digraph.nodes}
DeclaredMetaKeys ==
    UNION {{kv.key : kv \in Range(Declared(digraph.nodes[n].stateNode.meta))} :
             n \in DOMAIN digraph.nodes}
DeclaredInvokeTexts ==
    UNION {UNION {{escapeMermaidText(inv.src), escapeMermaidText(inv.id)} :
                    inv \in Range(Declared(digraph.nodes[n].stateNode.invoke))} :
             n \in DOMAIN digraph.nodes}
DeclaredGuards ==
    {Val(e.transition.guard) : e \in {d \in AllEdges : IsSome(d.transition.guard)}}

\* No line of the outputs contains one of the texts.
NowhereShown(texts) == \A l \in OutputLines : \A t \in texts : ~Contains(l, t)

\* C15: for each of the flags includeGuards, includeActions,
\* includeEntryActions, includeExitActions, includeInvokes, includeTags and
\* includeMeta: when the flag is false its field is in no label of the
\* output (neither its marker nor a declared value of it), and the outputs
\* of the calls with the flag unset equal those with the flag set to true.
C15_FlagsHideAndDefaultOn ==
    /\ IsOff("includeGuards") => NowhereShown({<<" IF ">>} \cup DeclaredGuards)
    /\ IsOff("includeActions") =>
          \A l \in OutputLines :
              IsTransitionLine(l) => ~Contains(l, <<Br>>) /\ ~Contains(l, <<"[{koppa} ">>)
    /\ IsOff("includeEntryActions") =>
          NowhereShown({<<"Entry actions">>} \cup DeclaredEntryNames)
    /\ IsOff("includeExitActions") =>
          NowhereShown({<<"Exit actions">>} \cup DeclaredExitNames)
    /\ IsOff("includeInvokes") =>
          NowhereShown({<<"Invoke">>, <<"[{fisheye} ">>} \cup DeclaredInvokeTexts)
    /\ IsOff("includeTags") => NowhereShown({<<"(">>} \cup DeclaredTagTexts)
    /\ IsOff("includeMeta") => NowhereShown({<<"</i> - ">>} \cup DeclaredMetaKeys)
    /\ \A k \in 1..Len(flatOut) : flatOut[k] = flatOut[1]
    /\ \A k \in 1..Len(nestedOut) : nestedOut[k] = nestedOut[1]

\* Both converters have run with a flag unset and again with that flag set
\* to true, while another flag is false and its field is declared; the
\* fields of the other flags are shown.
C15_Witness ==
    /\ Len(flatOut) >= 2 /\ Len(nestedOut) >= 2
    /\ \E f \in Flags : options[f] = Some(TRUE)
    /\ IsOff("includeEntryActions") /\ DeclaredEntryNames # {}
    /\ \A out \in Outputs :
          Contains(out, <<"Exit actions">>) /\ Contains(out, <<" IF ">>)

----------------------------------------------------------------------------
(* C16 *)

\* The nodes that get a state line: in toMermaid the first node of every
\* short name, in toMermaidNested every leaf.
FlatLineNodes == {n \in Range(PreOrder(digraph.children)) : FirstNamedLike(n) = n}
NestedLineNodes == {n \in Range(PreOrder(digraph.children)) : n \notin CompoundNodes}

\* The state lines of ls for the short name of node n, without indentation
StateLinesOf(ls, n) ==
    {Unpadded(ls[i]) : i \in StateLineIndexes(ls, getStateName(digraph.nodes[n].id))}

\* The short name in lower case, for the names of the graphs
LowerCaseName(name) == [i \in 1..Len(name) |-> IF name[i] = "B" THEN "b" ELSE name[i]]

\* Is l the line `name: name` of a node without renderable field, or a line
\* `name: label` whose label starts with the header, of a node with one?
IsLineWithHeader(l, n, header) ==
    IF HasRenderableField(digraph.nodes[n])
    THEN StartsWith(l, getStateName(digraph.nodes[n].id) \o <<": ">> \o header)
    ELSE l = getStateName(digraph.nodes[n].id) \o <<": ">>
             \o getStateName(digraph.nodes[n].id)

\* The same, where a limit shorter than the header leaves the first
\* characters of the header and three dots.
IsLineWithCutHeader(l, n, header) ==
    IF HasRenderableField(digraph.nodes[n]) /\ maxLen > 0 /\ maxLen < Len(Chars(header))
    THEN /\ StartsWith(l, getStateName(digraph.nodes[n].id) \o <<": ">>)
         /\ Chars(SubSeq(l, 3, Len(l)))
            = SubSeq(Chars(header), 1, maxLen) \o <<".", ".", ".">>
    ELSE IsLineWithHeader(l, n, header)

\* C16, as stated: a state with no renderable field once disabled flags are
\* applied is emitted as the line `<shortName>: <shortName>`; a state with
\* at least one renderable field is emitted as `<shortName>: <label>` where
\* the label starts with the emphasised short name, `<b>shortName</b>`.
C16_StateLineStartsWithName ==
    /\ \A k \in 1..Len(flatOut) : \A n \in FlatLineNodes :
          \E l \in StateLinesOf(SplitLines(flatOut[k]), n) :
              IsLineWithHeader(l, n, <<"<b>">> \o getStateName(digraph.nodes[n].id)
                                     \o <<"</b>">>)
    /\ \A k \in 1..Len(nestedOut) : \A n \in NestedLineNodes :
          \E l \in StateLinesOf(SplitLines(nestedOut[k]), n) :
              IsLineWithHeader(l, n, <<"<b>">> \o getStateName(digraph.nodes[n].id)
                                     \o <<"</b>">>)

\* C16, amended: a state that gets a state line and has no renderable field
\* once disabled flags are applied is emitted as `<shortName>: <shortName>`;
\* one with a renderable field is emitted as `<shortName>: <label>` where
\* the label starts with the emphasised short name in lower case, or, under
\* a length limit shorter than that header, is the first characters of the
\* header followed by `...`.
C16_StateLineStartsWithLowerCaseName ==
    /\ \A k \in 1..Len(flatOut) : \A n \in FlatLineNodes :
          \E l \in StateLinesOf(SplitLines(flatOut[k]), n) :
              IsLineWithCutHeader(l, n,
                  <<"<b>">> \o LowerCaseName(getStateName(digraph.nodes[n].id))
                  \o <<"</b>">>)
    /\ \A k \in 1..Len(nestedOut) : \A n \in NestedLineNodes :
          \E l \in StateLinesOf(SplitLines(nestedOut[k]), n) :
              IsLineWithCutHeader(l, n,
                  <<"<b>">> \o LowerCaseName(getStateName(digraph.nodes[n].id))
                  \o <<"</b>">>)

\* Both converters have run on a graph where a leaf declares tags that a
\* disabled flag hides, so that it has no renderable field, and a leaf with
\* a capital in its name has one.
C16_Witness ==
    /\ Len(flatOut) > 0 /\ Len(nestedOut) > 0
    /\ \E n \in NestedLineNodes :
          /\ Len(getTags(digraph.nodes[n])) > 0
          /\ ~HasRenderableField(digraph.nodes[n])
    /\ \E n \in NestedLineNodes :
          /\ HasRenderableField(digraph.nodes[n])
          /\ LowerCaseName(getStateName(digraph.nodes[n].id))
             # getStateName(digraph.nodes[n].id)

----------------------------------------------------------------------------
(* C17 *)

\* A node or machine declares an initial child, and the key of that child.
DeclaresInitial(initial) == initial.type # "undefined"
DeclaredInitial(initial) ==
    IF initial.type = "string" THEN initial.value ELSE initial.target

IsMarkerLine(line) ==
    Len(Unpadded(line)) > 0 /\ Unpadded(line)[1] = "[*] --> "

\* Among the lines lo..hi of ls, those at the given indentation that are
\* initial markers are exactly one `[*] --> X` line when the initial child
\* X is declared, and none otherwise.
MarkersAsDeclared(ls, lo, hi, indent, initial) ==
    LET hits == {i \in lo..hi : IsMarkerLine(ls[i]) /\ Indent(ls[i]) = indent}
    IN  IF DeclaresInitial(initial)
        THEN /\ Cardinality(hits) = 1
             /\ \A i \in hits :
                    ls[i] = Pad(indent) \o <<"[*] --> ">> \o DeclaredInitial(initial)
        ELSE hits = {}

\* C17: both converters emit exactly one top-level `[*] --> X` line when the
\* machine declares a top-level initial child X and none otherwise;
\* toMermaidNested also emits exactly one `[*] --> Y` line inside the
\* container of every compound state that declares an initial child Y, and
\* toMermaid emits no initial marker for a nested state.
C17_InitialMarkersAsDeclared ==
    /\ \A k \in 1..Len(flatOut) : \A ls \in {SplitLines(flatOut[k])} :
          /\ MarkersAsDeclared(ls, 1, Len(ls), 1, digraph.initial)
          /\ \A i \in 1..Len(ls) : IsMarkerLine(ls[i]) => Indent(ls[i]) = 1
    /\ \A k \in 1..Len(nestedOut) : \A ls \in {SplitLines(nestedOut[k])} :
          /\ MarkersAsDeclared(ls, 1, Len(ls), 1, digraph.initial)
          /\ \A c \in CompoundNodes :
                /\ OpenIndex(ls, digraph.nodes[c]) # 0
                /\ CloseIndex(ls, digraph.nodes[c]) # 0
                /\ MarkersAsDeclared(ls, OpenIndex(ls, digraph.nodes[c]),
                                     CloseIndex(ls, digraph.nodes[c]),
                                     Depth(digraph.nodes[c].id) + 1,
                                     digraph.nodes[c].stateNode.initial)

\* The same statement for the machines whose every declaration of an
\* initial child is the key of the child.
C17_StringInitialMarkersAsDeclared ==
    (/\ digraph.initial.type # "object"
     /\ \A n \in DOMAIN digraph.nodes :
            digraph.nodes[n].stateNode.initial.type # "object")
    => C17_InitialMarkersAsDeclared

----------------------------------------------------------------------------
(* C18 *)

\* A line in comment syntax: its text, past the indentation, starts with %%
IsCommentLine(line) ==
    \E t \in {Glue(Unpadded(line))} : Len(t) >= 2 /\ SubSeq(t, 1, 2) = "%%"

\* The line `%% <title>`
IsTitleLine(line, title) == Glue(Unpadded(line)) = "%% " \o Glue(title)

\* C18: when options.title is set, both converters emit the line
\* `%% <title>` directly after the diagram-kind line; when no title is set,
\* the output contains no comment line; in both cases the first line is the
\* diagram-kind declaration `stateDiagram-v2`.
C18_TitleLineAfterKindLine ==
    \A out \in Outputs : \A ls \in {SplitLines(out)} :
        /\ ls[1] = <<"stateDiagram-v2">>
        /\ IF IsSome(options.title)
           THEN Len(ls) >= 2 /\ IsTitleLine(ls[2], Val(options.title))
           ELSE \A i \in 1..Len(ls) : ~IsCommentLine(ls[i])

\* What the converters do with or without a title: the first line is the
\* diagram-kind declaration and no line is a comment line.
C18_NoCommentLineEver ==
    \A out \in Outputs : \A ls \in {SplitLines(out)} :
        /\ ls[1] = <<"stateDiagram-v2">>
        /\ \A i \in 1..Len(ls) : ~IsCommentLine(ls[i])

----------------------------------------------------------------------------
(* C19 *)

\* The number of colon characters of a text, and of its characters that
\* stand in for a colon
RECURSIVE CountOf(_, _)
CountOf(pieces, c) ==
    IF Len(pieces) = 0 THEN 0
    ELSE (IF pieces[1] = c THEN 1 ELSE 0) + CountOf(Tail(pieces), c)
ColonCount(text) == CountOf(Chars(text), ":")
SubstituteCount(text) == CountOf(Chars(text), "{ratio}")

\* A node declares a description: a non-empty text
DeclaresDescription(node) ==
    IsSome(node.stateNode.description) /\ Len(Val(node.stateNode.description)) > 0

\* C19: for every state node, the description returned by getDescription
\* contains no colon character, every colon of the declared description
\* being replaced by a substitute, and a node without a description yields
\* an absent value; in the outputs, the only colon of the state line or note
\* line of a node that declares nothing but a description is the separator
\* after the short name.
C19_DescriptionHasNoColon ==
    /\ \A n \in DOMAIN digraph.nodes : \A node \in {digraph.nodes[n]} :
          IF DeclaresDescription(node)
          THEN /\ IsSome(getDescription(node))
               /\ ColonCount(Val(getDescription(node))) = 0
               /\ SubstituteCount(Val(getDescription(node)))
                  = ColonCount(Val(node.stateNode.description))
          ELSE getDescription(node) = None
    /\ \A out \in Outputs : \A ls \in {SplitLines(out)} :
          \A i \in 1..Len(ls) :
              ColonCount(ls[i]) = IF IsStateLine(ls[i]) \/ IsNoteLine(ls[i]) THEN 1 ELSE 0

\* Both converters have run on a graph where one node declares a
\* description with several colons and another declares none.
C19_Witness ==
    /\ Len(flatOut) > 0 /\ Len(nestedOut) > 0
    /\ \E n \in DOMAIN digraph.nodes :
          /\ DeclaresDescription(digraph.nodes[n])
          /\ ColonCount(Val(digraph.nodes[n].stateNode.description)) > 1
    /\ \E n \in DOMAIN digraph.nodes : digraph.nodes[n].stateNode.description = None

----------------------------------------------------------------------------
(* C20 *)

\* A list field is not declared: it is undefined or the empty list
NoList(field) == field = None \/ field = Some(<<>>)

\* A node declares no field at all
DeclaresNothing(node) ==
    /\ node.stateNode.description = None /\ node.stateNode.meta = None
    /\ NoList(node.stateNode.entry) /\ NoList(node.stateNode.exit)
    /\ NoList(node.stateNode.invoke) /\ NoList(node.stateNode.tags)

\* C20: every field extractor returns an empty collection or an absent
\* value when the node does not declare the field: getDescription and
\* getMeta an absent value, getEntryActions, getExitActions, getInvokes and
\* getTags an empty list; the converters, which call the extractors on
\* every node, return a text, and a node that declares nothing gets the
\* state line `name: name`.
C20_UndeclaredFieldYieldsNothing ==
    /\ \A n \in DOMAIN digraph.nodes : \A node \in {digraph.nodes[n]} :
          /\ node.stateNode.description = None => getDescription(node) = None
          /\ node.stateNode.meta = None => getMeta(node) = None
          /\ NoList(node.stateNode.entry) => getEntryActions(node) = <<>>
          /\ NoList(node.stateNode.exit) => getExitActions(node) = <<>>
          /\ NoList(node.stateNode.invoke) => getInvokes(node) = <<>>
          /\ NoList(node.stateNode.tags) => getTags(node) = <<>>
    /\ \A k \in 1..Len(flatOut) : \A ls \in {SplitLines(flatOut[k])} :
          \A n \in FlatLineNodes :
              DeclaresNothing(digraph.nodes[n]) =>
                  getStateName(digraph.nodes[n].id) \o <<": ">>
                  \o getStateName(digraph.nodes[n].id) \in StateLinesOf(ls, n)
    /\ \A k \in 1..Len(nestedOut) : \A ls \in {SplitLines(nestedOut[k])} :
          \A n \in NestedLineNodes :
              DeclaresNothing(digraph.nodes[n]) =>
                  getStateName(digraph.nodes[n].id) \o <<": ">>
                  \o getStateName(digraph.nodes[n].id) \in StateLinesOf(ls, n)

\* Both converters have run on a graph with a leaf none of whose fields is
\* defined, a leaf that declares every field, and a node whose lists are
\* empty.
C20_Witness ==
    /\ Len(flatOut) > 0 /\ Len(nestedOut) > 0
    /\ \E n \in NestedLineNodes : digraph.nodes[n].stateNode.tags = None
    /\ \E n \in NestedLineNodes :
          /\ IsSome(getDescription(digraph.nodes[n]))
          /\ Len(getTags(digraph.nodes[n])) > 0
    /\ \E n \in DOMAIN digraph.nodes : digraph.nodes[n].stateNode.tags = Some(<<>>)

----------------------------------------------------------------------------
(* C21 *)

\* The event part of the label of the recorded call: the label up to the
\* guard marker or the line break.
LabelEvent == EventPart(Val(labelOut).label)

\* C21: formatTransitionLabel renders every event identifier that is not a
\* delay event as the whole identifier in bold, and an identifier that is a
\* delay event `xstate.after.<ms>.<id>` as the emphasised word `after`
\* followed by the plain duration `<ms>ms`.
C21_OnlyDelayEventsRenderedAsAfter ==
    IsSome(labelOut) =>
        IF IsDelayEvent(event)
        THEN LabelEvent = <<"<i>after</i> ", event[5], "ms">>
        ELSE LabelEvent = <<"<b>">> \o event \o <<"</b>">>

\* The same statement for the identifiers that neither start with the word
\* `after` and a space nor carry the delay pattern behind a named delay.
C21_PlainEventsInBold ==
    (IsSome(labelOut) /\ ~StartsWithAfterWord(event) /\ formatEventName(event) = event)
    => LabelEvent = <<"<b>">> \o event \o <<"</b>">>

----------------------------------------------------------------------------
(* C22 *)

\* The actions of a list that have a type outside the internal namespace,
\* in the order of the list
RECURSIVE UserActionsOf(_)
UserActionsOf(actions) ==
    IF Len(actions) = 0 THEN <<>>
    ELSE (IF Len(actions[1]) > 0 /\ ~InternalAction(actions[1])
          THEN <<actions[1]>> ELSE <<>>) \o UserActionsOf(Tail(actions))

\* The identifiers of a list, each marked with the action glyph, separated
\* by spaces
RECURSIVE MarkedActions(_)
MarkedActions(names) ==
    IF Len(names) = 0 THEN <<>>
    ELSE <<"[{koppa} ">> \o names[1] \o <<"]">>
         \o (IF Len(names) > 1 THEN <<" ">> ELSE <<>>) \o MarkedActions(Tail(names))

\* C22: the text formatTransitionLabel returns is the event text, followed
\* on the same line by ` IF <guardId>` exactly when the transition has a
\* guard with an identifier and guards are enabled, followed by a line-break
\* token and the action identifiers in declaration order exactly when
\* actions are enabled and at least one action remains after the
\* internal-namespace filter; when every action is internal, the label holds
\* no line-break token.
C22_LabelIsEventGuardActions ==
    IsSome(labelOut) =>
        \E t \in {Val(labelOut).transition}, label \in {Val(labelOut).label} :
            LET guardShown == /\ options.includeGuards # Some(FALSE)
                              /\ IsSome(t.guard) /\ Len(Val(t.guard)) > 0
                actionsShown == /\ options.includeActions # Some(FALSE)
                                /\ Len(UserActionsOf(t.actions)) > 0
            IN  /\ Len(EventPart(label)) > 0
                /\ label = EventPart(label)
                           \o (IF guardShown THEN <<" IF ">> \o Val(t.guard) ELSE <<>>)
                           \o (IF actionsShown
                               THEN <<Br>> \o MarkedActions(UserActionsOf(t.actions))
                               ELSE <<>>)
                /\ Cardinality({i \in 1..Len(label) : label[i] = Br})
                   = IF actionsShown THEN 1 ELSE 0
                /\ Cardinality({i \in 1..Len(label) : label[i] = " IF "})
                   = IF guardShown THEN 1 ELSE 0

\* formatTransitionLabel has been called, with guards and actions enabled,
\* on a transition with a guard whose actions are all internal.
C22_Witness ==
    /\ IsSome(labelOut)
    /\ options.includeGuards # Some(FALSE) /\ options.includeActions # Some(FALSE)
    /\ IsSome(Val(labelOut).transition.guard)
    /\ Len(Val(Val(labelOut).transition.guard)) > 0
    /\ Len(Val(labelOut).transition.actions) > 1
    /\ UserActionsOf(Val(labelOut).transition.actions) = <<>>

----------------------------------------------------------------------------
(* C23 *)

\* The number of transition lines of ls that show the short names and the
\* event text of edge e
LinesLike(ls, e) ==
    Cardinality({i \in 1..Len(ls) :
                   IsTransitionLine(ls[i]) /\ LineTriple(ls[i]) = EdgeTriple(e)})

\* The number of (source id, target id, event identifier) triples among the
\* edges of E that show the same short names and event text as e
TriplesLike(E, e) ==
    Cardinality({NestedKey(e2) : e2 \in {e3 \in E : EdgeTriple(e3) = EdgeTriple(e)}})

\* C23: in toMermaidNested no two emitted transition lines originate from
\* edges with the same (source id, target id, event identifier) triple, and
\* two edges that differ in source id or target id are both emitted even
\* when their short names coincide: the lines that show the short names and
\* event of an edge are as many as the distinct triples of the edges that
\* show them.
C23_OneLinePerFullTriple ==
    \A k \in 1..Len(nestedOut) : \A ls \in {SplitLines(nestedOut[k])} :
        \A e \in AllEdges : LinesLike(ls, e) = TriplesLike(AllEdges, e)

\* The same statement for the edges held in the root list and in the lists
\* of the compound states, when no leaf holds an edge.
C23_OneLinePerFullTripleOfReadLists ==
    LeafEdges = {} => C23_OneLinePerFullTriple

----------------------------------------------------------------------------
(* C24 *)

\* The compound node that holds node n among its children, 0 for a node of
\* the top level
ParentOf(n) ==
    LET holders == {c \in CompoundNodes : n \in Range(digraph.nodes[c].children)}
    IN  IF holders = {} THEN 0 ELSE Min(holders)

\* The state lines of node n in the lines ls of toMermaidNested, without
\* indentation: the state lines with its short name at its depth, inside
\* the container of its parent
NestedStateLinesOf(ls, n) ==
    LET lo == IF ParentOf(n) = 0 THEN 1 ELSE OpenIndex(ls, digraph.nodes[ParentOf(n)])
        hi == IF ParentOf(n) = 0 THEN Len(ls)
              ELSE CloseIndex(ls, digraph.nodes[ParentOf(n)])
    IN  {Unpadded(ls[i]) :
           i \in {j \in lo..hi :
                    /\ IsStateLine(ls[j])
                    /\ Indent(ls[j]) = Depth(digraph.nodes[n].id)
                    /\ Unpadded(ls[j])[1] = getStateName(digraph.nodes[n].id)[1]}}

\* C24: for every leaf node and every options value, the state line
\* toMermaidNested emits for the node is, apart from its leading
\* indentation, the state line toMermaid emits for it, whenever toMermaid
\* emits one for it (the node is the first of its short name).
C24_LeafLineAsInFlatMode ==
    \A kf \in 1..Len(flatOut), kn \in 1..Len(nestedOut) :
        \A lsf \in {SplitLines(flatOut[kf])}, lsn \in {SplitLines(nestedOut[kn])} :
            \A n \in NestedLineNodes :
                FirstNamedLike(n) = n =>
                    /\ Cardinality(NestedStateLinesOf(lsn, n)) = 1
                    /\ NestedStateLinesOf(lsn, n) = StateLinesOf(lsf, n)

\* Both converters have run, under options that hide a field, on a graph
\* with a leaf inside a container that declares the hidden field and other
\* fields, and a second leaf of the same short name.
C24_Witness ==
    /\ Len(flatOut) > 0 /\ Len(nestedOut) > 0
    /\ options.includeEntryActions = Some(FALSE)
    /\ \E n \in NestedLineNodes :
          /\ FirstNamedLike(n) = n /\ ParentOf(n) # 0
          /\ Len(getEntryActions(digraph.nodes[n])) > 0
          /\ HasRenderableField(digraph.nodes[n])
    /\ \E n \in NestedLineNodes : FirstNamedLike(n) # n

----------------------------------------------------------------------------
(* C25 *)

\* The positions of the note lines of ls, and of those for a short name
NoteLineIndexes(ls) == {i \in 1..Len(ls) : IsNoteLine(ls[i])}
NoteLineIndexesOf(ls, name) ==
    {i \in NoteLineIndexes(ls) : Unpadded(ls[i])[2] = name[1]}

\* C25: toMermaidNested emits exactly one `note right of <shortName>:
\* <text>` line for a compound state if and only if the state has a
\* description, directly after the closing `}` line of the state and at its
\* indentation; a leaf state never produces a note line, so the note lines
\* are as many as the compound states with a description.
C25_NoteAfterContainerIffDescribed ==
    \A k \in 1..Len(nestedOut) : \A ls \in {SplitLines(nestedOut[k])} :
        /\ \A c \in CompoundNodes : \A node \in {digraph.nodes[c]} :
              IF DeclaresDescription(node)
              THEN /\ NoteLineIndexesOf(ls, getStateName(node.id))
                      = {CloseIndex(ls, node) + 1}
                   /\ CloseIndex(ls, node) # 0
                   /\ StartsWith(ls[CloseIndex(ls, node) + 1],
                                 Pad(Depth(node.id)) \o <<"note right of ">>
                                 \o getStateName(node.id) \o <<": ">>)
              ELSE NoteLineIndexesOf(ls, getStateName(node.id)) = {}
        /\ Cardinality(NoteLineIndexes(ls))
           = Cardinality({c \in CompoundNodes : DeclaresDescription(digraph.nodes[c])})

\* toMermaidNested has run on a graph where a compound state inside a
\* compound state has a description, a compound state has none, and a leaf
\* has one.
C25_Witness ==
    /\ Len(nestedOut) > 0
    /\ \E c \in CompoundNodes :
          DeclaresDescription(digraph.nodes[c]) /\ ParentOf(c) # 0
    /\ \E c \in CompoundNodes : ~DeclaresDescription(digraph.nodes[c])
    /\ \E n \in NestedLineNodes : DeclaresDescription(digraph.nodes[n])

----------------------------------------------------------------------------
(* C26 *)

\* text.split(sep), for a separator of one token
RECURSIVE SplitOn(_, _)
SplitOn(text, sep) ==
    LET stops == {i \in 1..Len(text) : text[i] = sep}
    IN  IF stops = {} THEN <<text>>
        ELSE <<SubSeq(text, 1, Min(stops) - 1)>>
             \o SplitOn(SubSeq(text, Min(stops) + 1, Len(text)), sep)

\* The parts of a list that start with the token head, in their order
RECURSIVE PartsWith(_, _)
PartsWith(parts, head) ==
    IF Len(parts) = 0 THEN <<>>
    ELSE (IF Len(parts[1]) > 0 /\ parts[1][1] = head THEN <<parts[1]>> ELSE <<>>)
         \o PartsWith(Tail(parts), head)

\* The parts of the label of a state line `name: label`
LabelParts(l) == SplitOn(SubSeq(l, 3, Len(l)), Br)

\* The parts of a state label show the declared items of node in
\* declaration order: the tags, the entry and then the exit actions that
\* are not internal, the invoked actors and their ids.
PartsInDeclaredOrder(parts, node) ==
    /\ PartsWith(parts, "(")
       = [i \in 1..Len(Declared(node.stateNode.tags)) |->
            <<"(">> \o Declared(node.stateNode.tags)[i] \o <<")">>]
    /\ PartsWith(parts, "[{koppa} ")
       = [i \in 1..Len(UserActionsOf(Declared(node.stateNode.entry))) |->
            <<"[{koppa} ">> \o UserActionsOf(Declared(node.stateNode.entry))[i] \o <<"]">>]
         \o [i \in 1..Len(UserActionsOf(Declared(node.stateNode.exit))) |->
            <<"[{koppa} ">> \o UserActionsOf(Declared(node.stateNode.exit))[i] \o <<"]">>]
    /\ PartsWith(parts, "[{fisheye} ")
       = [i \in 1..Len(Declared(node.stateNode.invoke)) |->
            <<"[{fisheye} ">> \o Declared(node.stateNode.invoke)[i].src \o <<"]">>]
    /\ PartsWith(parts, "<sub>{corner} ID{ratio} ")
       = [i \in 1..Len(Declared(node.stateNode.invoke)) |->
            <<"<sub>{corner} ID{ratio} ">> \o Declared(node.stateNode.invoke)[i].id
            \o <<"</sub>">>]

\* The action line of a transition label: what follows the line break
ActionPart(label) ==
    LET stops == {i \in 1..Len(label) : label[i] = Br}
    IN  IF stops = {} THEN <<>> ELSE SubSeq(label, Min(stops) + 1, Len(label))

\* C26: within every state label the tags, the entry actions, the exit
\* actions and the invoked actors each appear in declaration order, and
\* within every transition label the actions appear in declaration order;
\* the internal actions are left out without reordering the others.
C26_DeclarationOrderKept ==
    /\ \A k \in 1..Len(flatOut) : \A ls \in {SplitLines(flatOut[k])} :
          /\ \A n \in FlatLineNodes : HasRenderableField(digraph.nodes[n]) =>
                \A l \in StateLinesOf(ls, n) :
                    PartsInDeclaredOrder(LabelParts(l), digraph.nodes[n])
          /\ \A e \in AllEdges :
                \E i \in 1..Len(ls) :
                    /\ IsTransitionLine(ls[i])
                    /\ ActionPart(LineLabel(ls[i]))
                       = MarkedActions(UserActionsOf(e.transition.actions))
    /\ \A k \in 1..Len(nestedOut) : \A ls \in {SplitLines(nestedOut[k])} :
          \A n \in NestedLineNodes : HasRenderableField(digraph.nodes[n]) =>
              \A l \in StateLinesOf(ls, n) :
                  PartsInDeclaredOrder(LabelParts(l), digraph.nodes[n])

\* Both converters have run on a graph whose first state declares its tags
\* and its actions in an order that is neither the alphabetical one nor its
\* reverse, with an internal action first among the entry actions.
C26_Witness ==
    /\ Len(flatOut) > 0 /\ Len(nestedOut) > 0
    /\ \E n \in NestedLineNodes :
          /\ Declared(digraph.nodes[n].stateNode.tags)
             = << <<"busy">>, <<"slow">>, <<"ready">> >>
          /\ Declared(digraph.nodes[n].stateNode.entry)
             = << <<"xstate", Dot, "raise">>, <<"track">>, <<"notify">> >>

----------------------------------------------------------------------------
(* C27 *)

\* The edge list that holds the edges of source id
ListOfSource(id) ==
    IF id = RootId THEN digraph.edges
    ELSE digraph.nodes[CHOOSE n \in DOMAIN digraph.nodes : digraph.nodes[n].id = id].edges

\* The number of entries of the edge lists of the nodes 1..n
RECURSIVE EntriesUpTo(_)
EntriesUpTo(n) ==
    IF n = 0 THEN 0 ELSE Len(digraph.nodes[n].edges) + EntriesUpTo(n - 1)

\* The last call was called on every node exactly once
EveryNodeVisitedOnce ==
    /\ Len(walk.visited) = Len(digraph.nodes)
    /\ \A n \in DOMAIN digraph.nodes : CountOf(walk.visited, n) = 1

\* The last call read every entry of the edge lists of the nodes of N and
\* of the root list exactly once, and no other entry
EntriesReadOnce(N) ==
    /\ \A e \in AllEdges :
          CountOf(walk.examined, e)
          = IF e.source = RootId
               \/ \E n \in N : digraph.nodes[n].id = e.source
            THEN CountOf(ListOfSource(e.source), e) ELSE 0
    /\ \A i \in 1..Len(walk.examined) : walk.examined[i] \in AllEdges

\* C27: every call to toMermaid or toMermaidNested returns having visited
\* every node of the tree of child links exactly once and examined every
\* entry of every edge list exactly once, also when the transition edges
\* form cycles among the nodes.
C27_EveryNodeAndEntryOnce ==
    walk.call # "none" =>
        /\ EveryNodeVisitedOnce
        /\ EntriesReadOnce(DOMAIN digraph.nodes)
        /\ Len(walk.examined) = Len(digraph.edges) + EntriesUpTo(Len(digraph.nodes))

\* What the calls do: both visit every node once; toMermaid reads every
\* entry of every list once, toMermaidNested those of the root list and of
\* the lists of the compound states.
C27_VisitsAndReadLists ==
    walk.call # "none" =>
        /\ EveryNodeVisitedOnce
        /\ EntriesReadOnce(IF walk.call = "toMermaid" THEN DOMAIN digraph.nodes
                           ELSE CompoundNodes)

----------------------------------------------------------------------------
(* C28 *)

\* The last element of a list
Last(list) == list[Len(list)]

----------------------------------------------------------------------------
(* C29 *)

----------------------------------------------------------------------------
(* C30 *)

\* The numbers of `state X {` lines and of `}` lines among the first i lines
OpensUpTo(ls, i) == Cardinality({j \in 1..i : IsContainerOpen(ls[j])})
ClosesUpTo(ls, i) == Cardinality({j \in 1..i : IsContainerClose(ls[j])})

\* The number of spaces a line starts with: four for each indentation unit
LeadingSpaces(line) == 4 * Indent(line)

\* C30: in every output of toMermaidNested the `state X {` lines and the
\* `}` lines are balanced and properly nested: at every prefix the `}` lines
\* are no more than the `state X {` lines, and as many at the end.  The
\* line of a node at nesting depth d (the top level is depth 1) is indented
\* by 4 d spaces and the lines inside its container by 4 (d + 1): every
\* line after the first is indented by four spaces more than four times the
\* number of containers open before it, the `}` line by as much as the
\* `state X {` line it closes.
C30_BalancedAndIndented ==
    \A k \in 1..Len(nestedOut) : \A ls \in {SplitLines(nestedOut[k])} :
        /\ \A i \in 1..Len(ls) : ClosesUpTo(ls, i) <= OpensUpTo(ls, i)
        /\ ClosesUpTo(ls, Len(ls)) = OpensUpTo(ls, Len(ls))
        /\ OpensUpTo(ls, Len(ls)) = Cardinality(CompoundNodes)
        /\ \A i \in 2..Len(ls) :
              LeadingSpaces(ls[i])
              = 4 * (OpensUpTo(ls, i - 1) - ClosesUpTo(ls, i - 1)
                     + (IF IsContainerClose(ls[i]) THEN 0 ELSE 1))
        /\ \A n \in DOMAIN digraph.nodes :
              \E i \in 2..Len(ls) :
                  /\ LeadingSpaces(ls[i]) = 4 * Depth(digraph.nodes[n].id)
                  /\ IF n \in CompoundNodes
                     THEN Unpadded(ls[i])
                          = <<"state ">> \o getStateName(digraph.nodes[n].id) \o <<" {">>
                     ELSE /\ IsStateLine(ls[i])
                          /\ Unpadded(ls[i])[1] = getStateName(digraph.nodes[n].id)[1]

\* toMermaidNested has run on a graph with a compound state inside a
\* compound state, an edge in the list of the inner one and an edge in the
\* root list.
C30_Witness ==
    /\ Len(nestedOut) > 0
    /\ Len(digraph.edges) > 0
    /\ \E c \in CompoundNodes :
          ParentOf(c) # 0 /\ Len(digraph.nodes[c].edges) > 0

====
